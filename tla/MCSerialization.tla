--------------------------- MODULE MCSerialization ---------------------------
(* Structs for TLC: nested two deep, with arrays, and with an inner struct   *)
(* that has no fields.                                                       *)
EXTENDS Serialization

MCTypes ==
    [bool    |-> Leaf("PrimitiveType", 1, 1),
     u3      |-> Leaf("PrimitiveType", 3, 1),
     array   |-> Leaf("StaticArray", 2, 2),
     dynamic |-> Leaf("DynamicArray", 2, 3),
     Empty   |-> StructOf(<< >>),
     Inner   |-> StructOf(<< "bool", "u3" >>),
     Deep    |-> StructOf(<< "Inner", "dynamic" >>),
     Plain   |-> StructOf(<< "u3" >>),
     Middle  |-> StructOf(<< "u3", "Inner", "bool" >>),
     First   |-> StructOf(<< "Deep", "array", "u3" >>),
     Last    |-> StructOf(<< "bool", "Inner", "Deep" >>),
     Hollow  |-> StructOf(<< "bool", "Empty", "Inner" >>)]

MCStructs == {"Plain", "Middle", "First", "Last", "Hollow"}
==============================================================================
