---------------------------- MODULE MCParamCodec ----------------------------
(* ParamCodec on every struct of up to five fields of six kinds, well formed or
   not, and on the publication of every vector of up to three parameters. *)
EXTENDS ParamCodec

CONSTANTS gain, pan, one, two

MCTexts   == {gain, pan, Null}
MCNumbers == {one, two}

MCFields == {[type |-> "String", val |-> gain], [type |-> "String", val |-> pan],
             [type |-> "String", val |-> Null], [type |-> "Int", val |-> one],
             [type |-> "Double", val |-> two],  [type |-> "Bool", val |-> one]}
MCPods   == UNION {[1..n -> MCFields] : n \in 0..5}

MCEntries == [name : {gain, pan},
              value : {[alt |-> "int", val |-> one], [alt |-> "float", val |-> two],
                       [alt |-> "string", val |-> pan], [alt |-> "string", val |-> Null],
                       [alt |-> "bool", val |-> one], Nullopt}]
MCStores  == UNION {[1..n -> MCEntries] : n \in 0..3}
=============================================================================
