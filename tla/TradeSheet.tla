----------------------------- MODULE TradeSheet -----------------------------
(***************************************************************************)
(* The slide-up sheet a trade is placed from, in one browser, and the two  *)
(* routes it talks to.  Each press of the button makes up a request id; a  *)
(* busy market answers "queued" and the sheet asks for the outcome until a *)
(* minute is up.  The person may close the sheet and open it for another   *)
(* outcome while a press is under way: it is the same component, with the  *)
(* same state, and what the press comes to is applied to whatever it shows *)
(* by then.  A request may be lost on the way there or on the way back.    *)
(***************************************************************************)
EXTENDS Integers, FiniteSets

CONSTANTS
    Presses,        \* request ids, in the order they are made up: 1 .. n
    MaxOpened       \* bound on the times the sheet is opened

VARIABLES
    opened,         \* times the sheet was opened: the intent it shows is the last
    showing,        \* intent # null
    entered,        \* an amount that previews
    typed,          \* the opening the reason in the field was typed in, 0 for none
    submitting,
    queued,
    error,          \* what the sheet says went wrong
    press,          \* press[r]: how far submit has come, and for which opening
    trade,          \* trade[r]: how it ended with whom it was handed to, and
                    \* whether there is a trade with its request id
    unsure          \* history: openings where the button was pressed again after
                    \* an error that does not say whether the trade was made

vars == <<opened, showing, entered, typed, submitting, queued, error, press, trade, unsure>>

NotPressed == [at |-> "unused", for |-> 0, why |-> 0]

\* The worker that reads the stream, and the call that waits for the answer.
Executors == {"stream", "inline"}

NotPlaced == [hand |-> [x \in Executors |-> "none"], made |-> FALSE]

Init ==
    /\ opened = 0
    /\ showing = FALSE
    /\ entered = FALSE
    /\ typed = 0
    /\ submitting = FALSE
    /\ queued = FALSE
    /\ error = "none"
    /\ press = [r \in Presses |-> NotPressed]
    /\ trade = [r \in Presses |-> NotPlaced]
    /\ unsure = {}

Unheard == {"no answer", "still confirming"}

---------------------------------------------------------------------------
(* The person.                                                             *)

\* A new intent empties the amount and the error; neither "submitting" nor the
\* reason is among what it resets.
OpenSheet ==
    /\ ~showing
    /\ opened < MaxOpened
    /\ opened' = opened + 1
    /\ showing' = TRUE
    /\ entered' = FALSE
    /\ queued' = FALSE
    /\ error' = "none"
    /\ UNCHANGED <<typed, submitting, press, trade, unsure>>

\* The cross, the backdrop or a drag, at any time.
CloseSheet ==
    /\ showing
    /\ showing' = FALSE
    /\ UNCHANGED <<opened, entered, typed, submitting, queued, error, press, trade, unsure>>

\* Whether an amount previews is up to the price, the liquidity and what is held.
Previews == BOOLEAN

EnterAmount ==
    /\ showing
    /\ entered' \in Previews
    /\ UNCHANGED <<opened, showing, typed, submitting, queued, error, press, trade, unsure>>

TypeReason ==
    /\ showing
    /\ typed' = opened
    /\ UNCHANGED <<opened, showing, entered, submitting, queued, error, press, trade, unsure>>

NextId == CHOOSE r \in Presses :
    press[r] = NotPressed /\ \A q \in Presses : press[q] = NotPressed => r <= q

\* Disabled while a press is under way or nothing previews.
ButtonOn == showing /\ entered /\ ~submitting

\* submit, with a request id of its own.
Press ==
    /\ ButtonOn
    /\ \E r \in Presses : press[r] = NotPressed
    /\ press' = [press EXCEPT ![NextId] = [at |-> "sent", for |-> opened, why |-> typed]]
    /\ submitting' = TRUE
    /\ queued' = FALSE
    /\ error' = "none"
    /\ unsure' = IF error \in Unheard THEN unsure \cup {opened} ELSE unsure
    /\ UNCHANGED <<opened, showing, entered, typed, trade>>

---------------------------------------------------------------------------
(* The API.  An entry that was put in the stream although the call failed  *)
(* is executed by the worker and inline as well, each with its own end.    *)

\* A request that is turned away by the route's guards and checks goes no
\* further.  Any other may arrive after the browser has stopped waiting.
Place(r, given) ==
    /\ press[r].at \in {"sent", "no answer"}
    /\ trade[r] = NotPlaced
    /\ trade' = [trade EXCEPT ![r].hand =
                   [x \in Executors |-> IF x \in given THEN "has" ELSE "none"]]
    /\ UNCHANGED <<opened, showing, entered, typed, submitting, queued, error, press, unsure>>

\* A refusal makes no trade; an error may be that of a commit whose answer was
\* lost.  A request whose trade there is already is filled by it, or loses the
\* race to write it.
Makes == [filled |-> {TRUE}, refused |-> {FALSE}, errored |-> BOOLEAN]

Execute(r, x, ends) ==
    /\ trade[r].hand[x] = "has"
    /\ \E makes \in Makes[ends] :
          trade' = [trade EXCEPT ![r].hand[x] = ends, ![r].made = @ \/ makes]
    /\ UNCHANGED <<opened, showing, entered, typed, submitting, queued, error, press, unsure>>

---------------------------------------------------------------------------
(* The rest of submit.                                                     *)

\* onFilled and onClose: whatever the sheet shows is closed.
Filled(r) ==
    /\ press' = [press EXCEPT ![r].at = "told filled"]
    /\ showing' = FALSE
    /\ submitting' = FALSE
    /\ queued' = FALSE
    /\ UNCHANGED <<opened, entered, typed, error, trade, unsure>>

\* The error is shown on whatever the sheet shows.
Failed(r, what) ==
    /\ press' = [press EXCEPT ![r].at = what]
    /\ error' = what
    /\ submitting' = FALSE
    /\ queued' = FALSE
    /\ UNCHANGED <<opened, showing, entered, typed, trade, unsure>>

\* Nothing was placed, nor will be.
TurnAway(r) ==
    /\ press[r].at = "sent"
    /\ trade[r] = NotPlaced
    /\ Failed(r, "refused")

\* The caller of an inline execution is told its end, whatever else the request
\* was handed to.
AnswerInline(r) ==
    /\ press[r].at = "sent"
    /\ \/ trade[r].hand["inline"] = "filled" /\ Filled(r)
       \/ trade[r].hand["inline"] = "refused" /\ Failed(r, "refused")
       \/ trade[r].hand["inline"] = "errored" /\ Failed(r, "no answer")

\* The worker announces an error as it does a refusal.
Announced(r) == trade[r].hand["stream"] \in {"refused", "errored"}

\* Whoever waits for the worker is told what it announced, or what a last look
\* at the trades shows, or that the request is queued; an announcement may be
\* lost.
AnswerQueued(r) ==
    /\ press[r].at = "sent"
    /\ trade[r].hand["inline"] = "none" /\ trade[r].hand["stream"] # "none"
    /\ \/ trade[r].made /\ Filled(r)
       \/ Announced(r) /\ Failed(r, "refused")
       \/ /\ ~trade[r].made
          /\ press' = [press EXCEPT ![r].at = "polling"]
          /\ queued' = TRUE
          /\ UNCHANGED <<opened, showing, entered, typed, submitting, error, trade, unsure>>

\* Lost on the way there, with nothing placed, or on the way back; an error of
\* the route after the trade was made says as little.
Lose(r) ==
    /\ press[r].at = "sent"
    /\ Failed(r, "no answer")

\* tradeStatus: the trade first, then the announcement.  A failed poll, or one
\* that still says queued, changes nothing.
Poll(r) ==
    /\ press[r].at = "polling"
    /\ \/ trade[r].made /\ Filled(r)
       \/ ~trade[r].made /\ Announced(r) /\ Failed(r, "refused")

\* After a minute.
GiveUp(r) ==
    /\ press[r].at = "polling"
    /\ Failed(r, "still confirming")

Next ==
    \/ OpenSheet \/ CloseSheet \/ EnterAmount \/ TypeReason \/ Press
    \/ \E r \in Presses :
          \/ \E given \in SUBSET Executors \ {{}} : Place(r, given)
          \/ \E x \in Executors, ends \in DOMAIN Makes : Execute(r, x, ends)
          \/ TurnAway(r) \/ AnswerInline(r) \/ AnswerQueued(r)
          \/ Lose(r) \/ Poll(r) \/ GiveUp(r)

Spec == Init /\ [][Next]_vars

---------------------------------------------------------------------------

HandedTwice(r) == \A x \in Executors : trade[r].hand[x] # "none"

\* The sheet says that a trade was made only when it was, and that it was
\* refused only when it never will be: but for a request that was executed
\* twice, or whose execution erred in the worker (submit, waitForFill: "a client
\* reading only the status code closes the sheet on a trade that has not
\* happened yet").
ToldIsTrue == \A r \in Presses :
    /\ press[r].at = "told filled" => trade[r].made
    /\ press[r].at = "refused" /\ trade[r].made =>
           HandedTwice(r) \/ trade[r].hand["stream"] = "errored"

TradesOf(n) == {r \in Presses : press[r].for = n /\ trade[r].made}

\* One opening of the sheet makes two trades only after the button was pressed
\* again over an error that left the first in the dark, or after the sheet said
\* of one that was made that it was refused: the request id that is to keep a
\* retry from filling twice is a new one for each press (submit: "a retry must
\* never double-fill").
OneTradeUnlessUnsure == \A n \in 1 .. MaxOpened :
    Cardinality(TradesOf(n)) > 1 =>
        n \in unsure \/ \E r \in TradesOf(n) : press[r].at = "refused"

\* Not so: a retry never makes a second trade, and what was refused is refused
\* for ever (an execution that erred aside).
RetryNeverDoubles == \A n \in 1 .. MaxOpened : Cardinality(TradesOf(n)) <= 1

RefusalStands == \A r \in Presses :
    press[r].at = "refused" /\ trade[r].hand["stream"] # "errored" => ~trade[r].made

\* At most one press is under way, whatever was opened and closed meanwhile,
\* and the button is off for as long.
OneAtATime ==
    LET going == {r \in Presses : press[r].at \in {"sent", "polling"}}
    IN /\ Cardinality(going) <= 1
       /\ submitting = (going # {})

SheetTells == ToldIsTrue /\ OneTradeUnlessUnsure /\ OneAtATime
=============================================================================
