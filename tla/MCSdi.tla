------------------------------- MODULE MCSdi -------------------------------
(* Two keyboards on one line, a bus driver whose init hook registers a     *)
(* driver, and one of another ABI version, with two slots for them.        *)
EXTENDS Sdi

Keyboard == {"probe", "attach", "start", "stop", "detach"}
Driver(name, line, hooks, child) ==
    [name |-> name, supported |-> TRUE, child |-> child, hooks |-> hooks, line |-> line]

Node == Driver("node", 1, {}, <<>>)
MCDrivers ==
    {Driver("kbd", 1, Keyboard, <<>>), Driver("kbd2", 1, Keyboard, <<>>),
     Driver("bus", 1, {"fini", "probe"}, <<Node>>),
     [Driver("old", 2, Keyboard, <<>>) EXCEPT !.supported = FALSE]}
=============================================================================
