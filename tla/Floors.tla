------------------------------- MODULE Floors --------------------------------
(***************************************************************************)
(* tools/floors.py: the least a checker must have looked at.               *)
(***************************************************************************)
EXTENDS Naturals, FiniteSets

FLOORS ==
  [framecheck   |-> [procs |-> 135, raw |-> 115],
   wincallcheck |-> [sites |-> 700],
   constcheck   |-> [mirrored |-> 18, files |-> 24],
   deadcode     |-> [symbols |-> 1290],
   aligncheck   |-> [scalars |-> 48],
   nvcheck      |-> [procs |-> 600],
   wstrcheck    |-> [calls |-> 28]]

\* what each checker counted when the floors were written
Counted ==
  [framecheck   |-> [procs |-> 153, raw |-> 128],
   wincallcheck |-> [sites |-> 791],
   constcheck   |-> [mirrored |-> 20, files |-> 26],
   deadcode     |-> [symbols |-> 1435],
   aligncheck   |-> [scalars |-> 53],
   nvcheck      |-> [procs |-> 670],
   wstrcheck    |-> [calls |-> 32]]

Fallen(metrics, name, minimum) == name \notin DOMAIN metrics \/ metrics[name] < minimum

\* check: how many floors of a tool are breached; a tool without floors has none
Breached(tool, metrics) ==
  IF tool \notin DOMAIN FLOORS THEN 0
  ELSE Cardinality({name \in DOMAIN FLOORS[tool] : Fallen(metrics, name, FLOORS[tool][name])})

\* _cli, for a checker in another language
Cli(tool, metrics) == IF Breached(tool, metrics) > 0 THEN 1 ELSE 0
=============================================================================
