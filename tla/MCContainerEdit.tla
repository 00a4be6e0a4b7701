--------------------------- MODULE MCContainerEdit ----------------------------
(***************************************************************************)
(* Two processes and a container of at most one entry, with room for three *)
(* containers in all: an edit that lost its race, and one after it, or an  *)
(* edit of a copy that was put back.  The removal empties the container,   *)
(* or leaves a survivor of an add; one of its two names may stand for      *)
(* nothing, which refuses it.                                              *)
(***************************************************************************)
EXTENDS ContainerEdit

MCStarts   == {<<>>, <<"a">>}
MCPacked   == <<"a">>
MCAdds     == {<<"b">>}
MCRemoves  == {{{"a"}}, {{"a"}, {"b"}}}
=============================================================================
