------------------------------ MODULE MdcsHash ------------------------------
(***************************************************************************)
(* mdcs_hash_string: the id of a counter is a hash of the bytes of its     *)
(* name.  A name is the sequence of its bytes before the terminating '\0'. *)
(* Modulus stands for 2^64, the width of the id.                           *)
(***************************************************************************)
EXTENDS Integers, Sequences
LOCAL INSTANCE SequencesExt

CONSTANT Modulus

(* (result << 5) + result + *p *)
mdcs_hash_string(name) ==
  FoldLeft(LAMBDA result, byte : (result * 33 + byte) % Modulus, 5381, name)
=============================================================================
