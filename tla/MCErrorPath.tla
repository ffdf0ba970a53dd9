----------------------------- MODULE MCErrorPath -----------------------------
(***************************************************************************)
(* A record with every shape: a string, a payload whose tag is declared    *)
(* after it, an array of records that hold an enum, an array of arrays of  *)
(* strings, a nested record with a payload whose tag comes before it, an   *)
(* optional record and an optional array of records.                       *)
(***************************************************************************)
EXTENDS ErrorPath, TLC

N(shape, name, kids) == [shape |-> shape, name |-> name, kids |-> kids]

Tree ==
    << N("record", "root", <<2, 3, 8, 9, 16, 21, 27, 31>>),
       N("string", "name", <<>>),
       N("union", "body", <<4, 7>>),
          N("record", "A", <<5, 6>>), N("string", "s", <<>>), N("bool", "on", <<>>),
          N("plain", "B", <<>>),
       N("enum", "kind", <<>>),
       N("array", "items", <<10, 13>>),
          N("record", "0", <<11, 12>>), N("string", "label", <<>>), N("enum", "mode", <<>>),
          N("record", "1", <<14, 15>>), N("string", "label", <<>>), N("enum", "mode", <<>>),
       N("array", "grid", <<17, 19>>),
          N("array", "0", <<18>>), N("string", "0", <<>>),
          N("array", "1", <<20>>), N("string", "0", <<>>),
       N("record", "nested", <<22, 23>>),
          N("enum", "kind", <<>>), N("union", "body", <<24, 26>>),
             N("record", "A", <<25>>), N("string", "s", <<>>),
             N("plain", "B", <<>>),
       N("option", "maybe", <<28>>),
          N("record", "value", <<29, 30>>), N("bool", "on", <<>>), N("string", "s", <<>>),
       N("option", "extra", <<32>>),
          N("array", "value", <<33, 35>>),
             N("record", "0", <<34>>), N("string", "s", <<>>),
             N("record", "1", <<36>>), N("string", "s", <<>>) >>

MCNode == DOMAIN Tree
MCShape == [n \in MCNode |-> Tree[n].shape]
MCKids == [n \in MCNode |-> Tree[n].kids]
MCName == [n \in MCNode |-> Tree[n].name]
MCTagOf == 3 :> 8 @@ 23 :> 22
=============================================================================
