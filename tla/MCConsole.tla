----------------------------- MODULE MCConsole -----------------------------
(***************************************************************************)
(* Texts and screens for Console: rows of two and three characters, a text *)
(* longer than a row, one with a blank, one that fills a row exactly; and  *)
(* screens that are full before, while and after interrupts print.         *)
(***************************************************************************)
EXTENDS Console

MCScreens == { [columns |-> 2, rows |-> 4], [columns |-> 2, rows |-> 9],
               [columns |-> 3, rows |-> 7] }

MCMainTexts == << <<"a", "b", "\n">>, <<"a", " ", "b", "\n">> >>

MCHandlerTexts ==
  [keyboard |-> <<"k", "k", "k", "\n">>, timer |-> <<"t">>, exception |-> <<"e", "e">>,
   pageFault |-> <<"p">>]
=============================================================================
