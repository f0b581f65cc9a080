--------------------------- MODULE TimelockedOwner ---------------------------
(***************************************************************************)
(* What a vault promises about the key that owns it, with everything left  *)
(* out but the key, the guardian's request and the counter of used         *)
(* signatures.  HybridVault is shown to implement it in VaultHistory.      *)
(*                                                                         *)
(* The holder of the account changes in two ways.  Either the account's    *)
(* own signatures install a new one, which uses up the next number for     *)
(* ever; or a request that the guardian made against this very holder, and *)
(* under these very terms, has waited for the whole delay.  A request is   *)
(* made at most once per number, and is gone as soon as the holder is.     *)
(***************************************************************************)
EXTENDS Naturals

CONSTANTS
  Keys,
  NoKey      \* stands for no request

VARIABLES
  open,       \* the account exists
  holder,     \* the key that owns it
  guardian,   \* who may ask for another holder
  delay,      \* how long a request has to wait
  request,    \* [new, at]: the key that was asked for, and when
  next,       \* the number that the next signature must carry
  used,       \* the numbers that signatures have used up
  asked,      \* the numbers of the guardian's requests
  clock

termsVars == <<guardian, delay>>
numberVars == <<next, used>>
vars == <<open, holder, termsVars, request, numberVars, asked, clock>>

NoRequest == [new |-> NoKey, at |-> 0]

Init ==
  /\ open = FALSE /\ holder \in Keys
  /\ guardian = NoKey /\ delay = 0
  /\ request = NoRequest
  /\ next = 0 /\ used = {} /\ asked = {} /\ clock = 0

Open ==
  /\ ~open /\ open' = TRUE
  /\ holder' \in Keys
  /\ UNCHANGED <<termsVars, request, numberVars, asked, clock>>

Wait ==
  /\ clock' = clock + 1
  /\ UNCHANGED <<open, holder, termsVars, request, numberVars, asked>>

\* The account's own signatures, under whatever policy it has.
Sign ==
  /\ open
  /\ used' = used \cup {next} /\ next' = next + 1
  /\ UNCHANGED <<open, asked, clock>>

\* They do something else, which is not this specification's business.
Use == Sign /\ UNCHANGED <<holder, termsVars, request>>

Replace ==
  /\ Sign
  /\ holder' \in Keys \ {holder}
  /\ request' = NoRequest
  /\ UNCHANGED termsVars

\* The terms never change under a request.
SetTerms ==
  /\ Sign
  /\ request = NoRequest
  /\ guardian' \in Keys \ {NoKey} /\ delay' \in Nat \ {0}
  /\ UNCHANGED <<holder, request>>

Withdraw ==
  /\ Sign
  /\ request # NoRequest /\ request' = NoRequest
  /\ UNCHANGED <<holder, termsVars>>

Ask ==
  /\ open /\ guardian # NoKey
  /\ request = NoRequest
  /\ next \notin asked /\ asked' = asked \cup {next}
  /\ \E new \in Keys \ {NoKey, holder} : request' = [new |-> new, at |-> clock]
  /\ UNCHANGED <<open, holder, termsVars, numberVars, clock>>

\* By anybody, with no signature: the number is skipped, not used.
Take ==
  /\ request # NoRequest
  /\ clock >= request.at + delay
  /\ holder' = request.new
  /\ request' = NoRequest
  /\ next' = next + 1
  /\ UNCHANGED <<open, termsVars, used, asked, clock>>

Next == Open \/ Wait \/ Use \/ Replace \/ SetTerms \/ Withdraw \/ Ask \/ Take

Spec == Init /\ [][Next]_vars
============================================================================
