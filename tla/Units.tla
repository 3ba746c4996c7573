------------------------------- MODULE Units -------------------------------
(***************************************************************************)
(* The units of the program that work on data of their own: no two of them *)
(* share state, and none runs while another does.  A behaviour is one of   *)
(* one unit, from any of its initial states; the others rest in the first. *)
(***************************************************************************)
EXTENDS Bitmap, Descriptors, KernelFormat, FirmwareText, Uart

VARIABLE unit \* the unit that runs

vars == <<unit, bitmapVars, wordVars, formatVars, textVars, uartVars>>

(* Some initial state of a unit that does not run. *)
anyContent == CHOOSE content \in Contents : TRUE
anyMessage == CHOOSE one \in Messages : TRUE
anyRequest == CHOOSE one \in Requests : TRUE
anyDivisor == CHOOSE rate \in Divisors : TRUE

BitmapRests == BitmapStart(anyContent)
WordRests   == WordStart("tss", {})
FormatRests == FormatStart(anyMessage, "none")
TextRests   == TextStart(anyRequest)
UartRests   == UartStart(FALSE, FALSE, anyDivisor, "8N1", << >>)

Init ==
  \/ unit = "bitmap" /\ BitmapInit  /\ WordRests /\ FormatRests /\ TextRests /\ UartRests
  \/ unit = "word"   /\ BitmapRests /\ WordInit  /\ FormatRests /\ TextRests /\ UartRests
  \/ unit = "format" /\ BitmapRests /\ WordRests /\ FormatInit  /\ TextRests /\ UartRests
  \/ unit = "text"   /\ BitmapRests /\ WordRests /\ FormatRests /\ TextInit  /\ UartRests
  \/ unit = "uart"   /\ BitmapRests /\ WordRests /\ FormatRests /\ TextRests /\ UartInit

CallBitmap ==
  /\ unit = "bitmap" /\ BitmapNext
  /\ UNCHANGED <<unit, wordVars, formatVars, textVars, uartVars>>

UseWord ==
  /\ unit = "word" /\ WordNext
  /\ UNCHANGED <<unit, bitmapVars, formatVars, textVars, uartVars>>

FormatMessage ==
  /\ unit = "format" /\ FormatNext
  /\ UNCHANGED <<unit, bitmapVars, wordVars, textVars, uartVars>>

FormatText ==
  /\ unit = "text" /\ TextNext
  /\ UNCHANGED <<unit, bitmapVars, wordVars, formatVars, uartVars>>

UseUart ==
  /\ unit = "uart" /\ UartNext
  /\ UNCHANGED <<unit, bitmapVars, wordVars, formatVars, textVars>>

Next == CallBitmap \/ UseWord \/ FormatMessage \/ FormatText \/ UseUart

Spec == Init /\ [][Next]_vars
=============================================================================
