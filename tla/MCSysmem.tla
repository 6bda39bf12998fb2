------------------------------ MODULE MCSysmem ------------------------------
EXTENDS Sysmem, TLC

CONSTANTS t1, t2

Menu(tasks, touch, stores, sends, brks, pins, modules, lossy) ==
  [tasks |-> tasks, touch |-> touch, stores |-> stores, sends |-> sends, brks |-> brks,
   pins |-> pins, modules |-> modules, lossy |-> lossy]

(* One task that fills memory with pages that compress more or less well.    *)
Filling == Menu({t1}, {t1} \X {1, 2, 3}, {2, 3}, {}, {}, {}, {}, FALSE)

(* Tasks that send each other pages, and go.                                 *)
Sending == Menu({t1, t2}, {<<t1, 2>>, <<t1, 3>>, <<t2, 3>>}, {2}, {<<t1, 2, t2, 3>>, <<t2, 3, t1, 3>>}, {}, {}, {}, FALSE)

(* A task of a boot module that moves its break, and pins a page.            *)
Breaking == Menu({t1}, {t1} \X {2, 3}, {}, {}, {3, 4, 7}, {{2}}, {6}, TRUE)

MCMenus == {Filling, Sending, Breaking}
MCSize(v) == v
MCOrMasks == {{PIN}}
=============================================================================
