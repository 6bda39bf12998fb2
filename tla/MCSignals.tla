---- MODULE MCSignals ----
EXTENDS Signals
MCSaMask == [s \in Sigs |-> IF s = 2 THEN {1} ELSE {}]
Quiet == [send |-> {}, max |-> 4, self |-> {}, mask |-> {}, masks |-> {}, suspend |-> {}, acts |-> {},
          reads |-> FALSE, pause |-> FALSE, jump |-> FALSE]
Suspending == [Quiet EXCEPT !.send = {1}, !.mask = {1}, !.suspend = {{}}]
MCSuspendScene == {Suspending}
MCSigScenes == {
    \* signals from outside at any time, handlers that nest and jump
    [Quiet EXCEPT !.send = {1, 2}, !.pause = TRUE, !.jump = TRUE],
    \* realtime signals in numbers
    [Quiet EXCEPT !.send = {33, 34}],
    \* interruptible receives
    [Quiet EXCEPT !.send = {1, 2}, !.reads = TRUE, !.max = 3],
    Suspending,
    \* signals to itself
    [Quiet EXCEPT !.self = {1, 2, 33}, !.masks = {{1}, {1, 2}}, !.suspend = {{}}, !.reads = TRUE],
    \* both at once
    [Quiet EXCEPT !.send = {1}, !.self = {2}, !.max = 3],
    [Quiet EXCEPT !.send = {1, 33}, !.masks = {{1}}, !.max = 2],
    [Quiet EXCEPT !.send = {1}, !.self = {2}, !.mask = {1}, !.masks = {{1}}, !.suspend = {{}}, !.max = 2],
    \* dispositions
    [Quiet EXCEPT !.self = {1, 17}, !.send = {}, !.masks = {{17}}, !.acts = {<<1, "ign">>, <<1, "fn">>, <<17, "fn">>, <<17, "dfl">>, <<17, "ign">>}],
    [Quiet EXCEPT !.send = {1, 9}]}
SigSpec == SigInit /\ [][SigNext]_sigVars /\ SigFairness
====
