--------------------------- MODULE DownloadSession --------------------------
(***************************************************************************)
(* What the three firmware download functions promise the application of   *)
(* a context: a session names one firmware when it starts, the bytes       *)
(* handed out while it lasts are the bytes of that firmware's image from   *)
(* the first one on, none missing, none twice, none of another image, at   *)
(* most one session is open at a time, and contexts do not disturb each    *)
(* other.  Nothing is said of messages, errors, retries or locks.          *)
(***************************************************************************)
EXTENDS Integers, Sequences

CONSTANTS
  Contexts,
  Firmwares,     \* the firmware ids a session may name
  ImageSize      \* firmware id -> number of bytes of its image

VARIABLES active, firmware, image      \* each a function of the context

sessionVars == <<active, firmware, image>>

(* The first n bytes of the image of firmware f.                           *)
Prefix(f, n) == [i \in 1..n |-> <<f, i - 1>>]

Init ==
  /\ active = [c \in Contexts |-> FALSE]
  /\ firmware = [c \in Contexts |-> 0]
  /\ image = [c \in Contexts |-> <<>>]

Start(c, f) ==
  /\ ~active[c]
  /\ active' = [active EXCEPT ![c] = TRUE]
  /\ firmware' = [firmware EXCEPT ![c] = f]
  /\ image' = [image EXCEPT ![c] = <<>>]

Deliver(c, n) ==
  /\ active[c]
  /\ n > Len(image[c])
  /\ image' = [image EXCEPT ![c] = Prefix(firmware[c], n)]
  /\ UNCHANGED <<active, firmware>>

Finish(c) ==
  /\ active[c]
  /\ active' = [active EXCEPT ![c] = FALSE]
  /\ UNCHANGED <<firmware, image>>

Next ==
  \E c \in Contexts :
    \/ \E f \in Firmwares : Start(c, f)
    \/ /\ firmware[c] \in DOMAIN ImageSize
       /\ \E n \in 1..ImageSize[firmware[c]] : Deliver(c, n)
    \/ Finish(c)

Spec == Init /\ [][Next]_sessionVars
=============================================================================
