--------------------------- MODULE MCParseSession ---------------------------
(***************************************************************************)
(* Small instances of ParseSession.  The requests differ in every option,  *)
(* so that an option that strays into another call shows, and their        *)
(* scripts have every kind of node, early ones, several blocks, an empty   *)
(* block and text that does not parse.  A call of NULL alone occurs early  *)
(* and late, with the default options and with others.                     *)
(***************************************************************************)
EXTENDS ParseSession

N(kind) == [kind |-> kind, early |-> FALSE]
E(kind) == [kind |-> kind, early |-> TRUE]
Good(nodes) == [nodes |-> nodes, parses |-> TRUE]
Bad(nodes)  == [nodes |-> nodes, parses |-> FALSE]

R(flavour, key, calls, names, null, script) ==
    [flavour |-> flavour, key |-> key, calls |-> calls, fmap |-> names,
     null |-> null, script |-> script]

MCFlavours  == {"common_parser", "mysql_parser"}
MCKeys      == {"None", "*"}
MCCallbacks == {"simple_op", "normal_op", "raises", "reenters"}
MCFmaps     == {"{}", "renames"}
MCNulls     == {"SQL_NULL", "null1"}
MCRaising   == {"raises"}
MCReentrant == {"reenters"}

TwoBlocks == R("common_parser", "None", None, None, "SQL_NULL",
               <<Good(<<N("null"), N("call_null")>>), Good(<<>>), Good(<<E("call_null"), N("call")>>)>>)
Windowed  == R("mysql_parser", "*", "normal_op", "renames", "null1",
               <<Good(<<E("call_null"), E("null"), N("call_null"), N("plain")>>)>>)
Renamed   == R("common_parser", "*", None, "renames", "null1",
               <<Good(<<N("call_null"), E("call_null"), N("null")>>)>>)
Breaks    == R("common_parser", "None", "normal_op", None, "null1",
               <<Good(<<N("null")>>), Bad(<<E("null"), N("plain")>>)>>)
Throws    == R("common_parser", "*", "raises", "renames", "SQL_NULL",
               <<Good(<<N("null"), N("call")>>)>>)
Misspelt  == R("common_parser", "x", None, None, "null1", <<Good(<<N("plain")>>)>>)
Nested    == R("common_parser", "None", "reenters", None, "SQL_NULL",
               <<Good(<<N("null"), E("call")>>)>>)

PlainRequests   == {TwoBlocks, Windowed, Renamed, Breaks, Throws, Misspelt}
SessionRequests == PlainRequests \cup {Nested}
FormatRequests  == {Windowed}
=============================================================================
