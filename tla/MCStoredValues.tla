--------------------------- MODULE MCStoredValues ----------------------------
(* Instances of the components of StoredValues for TLC.                    *)
EXTENDS StoredValues

CONSTANTS u1, p1

(* One creator.                                                            *)
MCOwnerOf == [c \in Contents |-> u1]
MCCreatorOf == [i \in Items |-> u1]
=============================================================================
