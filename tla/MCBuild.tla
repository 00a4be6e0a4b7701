------------------------------- MODULE MCBuild -------------------------------
(* Small sources for every gate, a 2 x 2 icon, and the ways build.cmd is called. *)
EXTENDS Build

\* a framed procedure has no prologue to find, a raw one no size to evaluate
MCProcs == [shape : {"raw"}, size : {40, 64}, loc : {0, 24}, at : {2, 6}, known : {TRUE}]
           \cup [shape : {"framed"}, size : {40, 64}, loc : {0, 24}, at : {2}, known : BOOLEAN]
MCStores == {<<32, 8>>, <<40, 16>>}

MCDirectives == [db |-> 1, dw |-> 2, dd |-> 4]

Plainly(p) == [q \in Grid |-> p]
MCIcons == {NoFrame, Plainly(<<255, 0, 128, 255>>),
            [q \in Grid |-> <<200, 100, 255, IF q[2] = 0 THEN 0 ELSE 130>>],
            [q \in Grid |-> <<255, q[1] * 100, 9, IF q[1] = 0 THEN 255 ELSE 77>>]}

\* chains of up to three names in any order, numbers or not at their end; the other
\* source mirrors one of them, by a number or through a second name
By(op, of) == [op |-> op, of |-> of]
Ends(op)   == [op |-> op, v |-> 1]
MCDefinable ==
  [f \in Sources |->
     IF f = "gui.asm"
     THEN {<<"x", Ends("number")>>, <<"x", By("increment", "y")>>, <<"y", Ends("number")>>}
     ELSE ({"x"} \X {Ends("number"), By("increment", "y"), By("halved", "y")})
          \cup ({"y"} \X {Ends("number"), Ends("unfoldable"), By("increment", "z"), By("halved", "z")})
          \cup ({"z"} \X {Ends("number"), By("increment", "x")})]

MCVersions == {<<"1.0.59", "0">>, <<"1.0.59", "1">>, <<"1.0.60", "0">>}

MCOperands == {[form |-> "register", reg |-> "rax"], [form |-> "register", reg |-> "rdx"],
               [form |-> "memory", reg |-> "r9"]}

Built(s, r, n, t, py, pil) ==
  [strict |-> s, release |-> r, nohw |-> n, test |-> t, python |-> py, pillow |-> pil]
Flags(s, r, n, py, pil) == Built(s, r, n, {}, py, pil)
MCGateBuilds == {Flags(TRUE, FALSE, FALSE, TRUE, TRUE), Flags(FALSE, FALSE, FALSE, TRUE, FALSE),
                 Flags(TRUE, FALSE, FALSE, FALSE, FALSE)}
MCImageBuilds == {Flags(TRUE, TRUE, FALSE, TRUE, TRUE), Flags(FALSE, TRUE, TRUE, TRUE, FALSE),
                  Built(TRUE, TRUE, FALSE, {"TEST_IO"}, TRUE, TRUE),
                  Flags(FALSE, TRUE, FALSE, FALSE, FALSE), Flags(FALSE, FALSE, FALSE, TRUE, TRUE)}
=============================================================================
