------------------------------ MODULE MtpTypes ------------------------------
(***************************************************************************)
(* The vocabulary the modules of this project share: the special object    *)
(* handles, formats and storage identifiers of include/MtpTypes.h and      *)
(* include/mtp.h, and std::map as a function with a finite domain.         *)
(***************************************************************************)
EXTENDS Integers, SequencesExt

\* MTP_PARENT_ROOT and kInvalidObjectHandle are both 0xFFFFFFFF.  The models
\* never count that far, so the all-ones value is written -1 (the literal the
\* source itself assigns to a parent in readFiles).
MTP_PARENT_ROOT == -1
kInvalidObjectHandle == -1

\* The two values no object may be given.
ReservedHandles == {0, kInvalidObjectHandle}

MTP_STORAGE_FIXED_RAM == 3
MTP_STORAGE_REMOVABLE_RAM == 4

\* All file formats behave alike in the database; only the association
\* (a directory) is told apart.
ASSOCIATION == "ASSOCIATION"
UNDEFINED == "UNDEFINED"
Formats == {ASSOCIATION, UNDEFINED}

\* std::map::insert: an existing key keeps its value.
Insert(m, k, v) ==
  [x \in DOMAIN m \cup {k} |-> IF x \in DOMAIN m THEN m[x] ELSE v]

\* Assignment through operator[]: the key gets the new value.
Put(m, k, v) ==
  [x \in DOMAIN m \cup {k} |-> IF x = k THEN v ELSE m[x]]

\* std::map::erase of every key in K; absent keys are ignored.
Erase(m, K) == Restrict(m, DOMAIN m \ K)

EmptyMap == [x \in {} |-> x]
=============================================================================
