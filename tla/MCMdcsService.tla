---------------------------- MODULE MCMdcsService ----------------------------
(* Instances of MdcsService for TLC: see service.cfg, service_type.cfg and   *)
(* service_name.cfg.  "Aa" and "B@" have the same hash whatever the width of *)
(* the id: 33 * 65 + 97 = 33 * 66 + 64.                                      *)
EXTENDS MdcsService, TLC

CONSTANTS x1, h1, h2, LAST, myType, Modulus

H == INSTANCE MdcsHash

MCItem == {x1}
MCHandle == {h1, h2}
MCName == {<< 65, 97 >>, << 66, 64 >>, << 67 >>}
HashTable == [name \in MCName |-> H!mdcs_hash_string(name)]
MCHash(name) == HashTable[name]
HandleSymmetry == Permutations(MCHandle)
MCBuiltInType == {LAST}
MCUserType == {myType}
MCBufferSizes == {0, 1}
=============================================================================
