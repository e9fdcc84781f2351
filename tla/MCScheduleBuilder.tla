------------------------- MODULE MCScheduleBuilder -------------------------
(***************************************************************************)
(* Events built in up to three calls of append(), with indexes and         *)
(* structures that do not fit the message, keyword arguments of all three  *)
(* types with frequencies at the three levels and values that do not fit,  *)
(* a default class of 256, and messages to restore: an empty one, and one  *)
(* that lists a frame twice.                                               *)
(***************************************************************************)
EXTENDS ScheduleBuilder

Args(type, freq, class, frameFreq, frameClass) ==
  [type |-> type, freq |-> freq, class |-> class, frameFreq |-> frameFreq,
   frameClass |-> frameClass, sound |-> TRUE, misfit |-> "none"]

MCKeywords == {
  Args("tx", {1}, {0}, {}, {}),
  Args("tx", {}, {}, {2}, {}),
  Args("rx", {3}, {}, {1}, {2}),
  Args("rx", {}, {0}, {}, {}),
  Args("idle", {}, {}, {}, {}),
  Args("none", {}, {}, {}, {}),
  [Args("rx", {}, {}, {}, {}) EXCEPT !.sound = FALSE],
  [Args("tx", {1}, {}, {2}, {}) EXCEPT !.misfit = "frame"],
  [Args("tx", {1}, {0}, {}, {}) EXCEPT !.misfit = "slot"]}

MCIndexes == {-1, 0, 1}

MCDefaults == {[freq |-> {}, class |-> {}], [freq |-> {4}, class |-> {256}]}

Shape(f, s) == [frames |-> f, slots |-> s, bandwidth |-> 1, misfit |-> FALSE]

MCShapes ==
  {Shape(2, 2), Shape(0, 1), Shape(301, 1), [Shape(2, 1) EXCEPT !.misfit = TRUE]}

Listing(slot) ==
  [index |-> {0}, freq |-> {1}, class |-> {},
   slots |-> <<[index |-> {slot}, type |-> {"rx"}, freq |-> {}, class |-> {}]>>]

Message(frames) == [structure |-> NoFields, freq |-> {}, class |-> {}, frames |-> frames]

MCArchive == {Message(<<>>), Message(<<Listing(0), Listing(1)>>)}
=============================================================================
