-------------------------------- MODULE MCKernel --------------------------------
(***************************************************************************)
(* Kernel on machines that differ from a good one in one respect.          *)
(***************************************************************************)
EXTENDS Kernel

MCContexts == {boot, irq}
MCSpanIds == 1 .. 10
MCParentKinds == {"Current"}
MCGarbledKinds == {"Event", "SpanExited"}
MCBootText == {1}

Region(kind, from, to) == [kind |-> kind, start |-> from, end |-> to]

\* Two neighbours of a kind, a hole, a region that is not usable.
Map == <<Region("Usable", 0, 8), Region("Usable", 8, 24), Region("Bootloader", 24, 28)>>

Letters(n, low) == [i \in 1 .. n |-> [nl |-> FALSE, n |-> i, low |-> low]]
Newline == <<[nl |-> TRUE, n |-> 0, low |-> FALSE]>>

Good ==
  [map |-> Map, offset |-> TRUE, x2apic |-> TRUE, display |-> "ok", test_build |-> FALSE,
   tests |-> << >>, size |-> [width |-> 60, height |-> 70],
   hello |-> <<Letters(3, FALSE), Letters(2, TRUE), Newline>>]

MCMachines ==
  {Good,
   [Good EXCEPT !.map = << >>],
   [Good EXCEPT !.map = <<Region("Usable", 0, 12)>>],
   [Good EXCEPT !.map = <<Region("Usable", 0, 20), Region("Usable", 22, 26)>>],
   [Good EXCEPT !.map = <<Region("Usable", 2, 20)>>],
   [Good EXCEPT !.map = Map \o <<Region("Usable", 28, 36)>>],
   [Good EXCEPT !.map = [i \in 1 .. 4 |-> Region("Usable", 20 * i, 20 * i + 16)]],
   [Good EXCEPT !.map = [i \in 1 .. 5 |-> Region("Usable", 20 * i, 20 * i + 16)]],
   [Good EXCEPT !.map = <<Region("Usable", 0, 12), Region("Usable", 8, 32)>>],
   [Good EXCEPT !.offset = FALSE],
   [Good EXCEPT !.x2apic = FALSE],
   [Good EXCEPT !.display = "none"],
   [Good EXCEPT !.display = "unsupported"]}
  \cup {[Good EXCEPT !.size.width = w, !.size.height = h] : w \in {20, 25, 40}, h \in {45, 48, 70}}
  \cup {[Good EXCEPT !.test_build = TRUE, !.tests = t] :
          t \in {<<"pass", "pass">>, <<"pass", "fail">>, <<"panic">>}}
=============================================================================
