------------------------------ MODULE MCMdcsRpc ------------------------------
(* Instances of MdcsRpc for TLC: see the rpc*.cfg files.  Modulo 2^16 the   *)
(* hash of "Kjf" is 0, the id that every remote reset looks up.             *)
EXTENDS MdcsRpc

CONSTANTS x1, h1, c1, c2, LAST, myType, Modulus

H == INSTANCE MdcsHash

MCItem == {x1}
MCHandle == {h1}
OneName == {<< 65 >>}
ZeroName == {<< 75, 106, 102 >>}
HashTable == [name \in OneName \union ZeroName |-> H!mdcs_hash_string(name)]
MCHash(name) == HashTable[name]
MCBuiltInType == {LAST}
MCUserType == {myType}
NoType == {}
MCBufferSizes == {1}
OneClient == {c1}
TwoClients == {c1, c2}
MCSize == {8, 48}
MCValueSize == [t \in {LAST} |-> 8]
MCUserValueSize == [t \in {myType} |-> 8]
NoFailure == {}
OutOfMemory == {"calloc"}
AnyFailure ==
  {"client margo_bulk_create", "margo_forward", "margo_get_output",
   "margo_get_input", "calloc", "margo_bulk_create",
   "margo_bulk_transfer", "margo_respond"}
=============================================================================
