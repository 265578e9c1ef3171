----------------------------- MODULE CreateForm -----------------------------
(***************************************************************************)
(* The page a community market is proposed from, in one browser.  The      *)
(* co-pilot's answer rewrites the form and a balance check only moves the  *)
(* meter; the creator goes on editing, picking templates and changing the  *)
(* activation path while either is away.  Sending it screens the market    *)
(* and files a draft.  What the form holds is a number: a new one for each *)
(* change.                                                                 *)
(***************************************************************************)
EXTENDS Integers, Sequences

CONSTANTS
    Contents,       \* 0 is the empty form
    MaxSends        \* bound on the submissions

VARIABLES
    content,        \* what the fields hold, the path aside
    path,           \* activationPath
    thinking,
    question,       \* the co-pilot or balance call that is away
    meter,          \* the content the estimate shown is about, 0 for none
    error,
    sending,        \* the submission that is away
    submitted,      \* the state the page was told, "none" while it is a form
    drafts,         \* community drafts filed, in order
    sends,
    chosen,         \* history: the path the creator chose last
    edited,         \* history: the form changed while the question was away
    unsure          \* history: an answer to a submission was lost

vars == <<content, path, thinking, question, meter, error, sending, submitted, drafts,
          sends, chosen, edited, unsure>>

history == <<chosen, edited, unsure>>

Paths == {"organic", "seeded"}

Away == [kind |-> "none", about |-> 0]

Unsent == [at |-> "none", content |-> 0, path |-> "organic", state |-> "none"]

Init ==
    /\ content = 0
    /\ path = "organic"
    /\ thinking = FALSE
    /\ question = Away
    /\ meter = 0
    /\ error = "none"
    /\ sending = Unsent
    /\ submitted = "none"
    /\ drafts = <<>>
    /\ sends = 0
    /\ chosen = "organic"
    /\ edited = FALSE
    /\ unsure = FALSE

Form == submitted = "none"

Changed == content + 1

---------------------------------------------------------------------------
(* The creator.                                                            *)

\* Typing, or adding and removing outcomes.
Edit ==
    /\ Form
    /\ Changed \in Contents
    /\ content' = Changed
    /\ edited' = TRUE
    /\ UNCHANGED <<path, thinking, question, meter, error, sending, submitted, drafts,
                   sends, chosen, unsure>>

\* A reset to a template keeps the path, and the meter as it was.
ApplyTemplate ==
    /\ Form
    /\ Changed \in Contents
    /\ content' = Changed
    /\ edited' = TRUE
    /\ UNCHANGED <<path, thinking, question, meter, error, sending, submitted, drafts, sends,
                   chosen, unsure>>

Choose(p) ==
    /\ Form
    /\ p # path
    /\ path' = p
    /\ chosen' = p
    /\ UNCHANGED <<content, thinking, question, meter, error, sending, submitted, drafts,
                   sends, edited, unsure>>

\* Either button is off while the other's call is away.
MayAsk == Form /\ ~thinking

Ask(kind) ==
    /\ MayAsk
    /\ thinking' = TRUE
    /\ question' = [kind |-> kind, about |-> content]
    /\ error' = "none"
    /\ edited' = FALSE
    /\ UNCHANGED <<content, path, meter, sending, submitted, drafts, sends, chosen, unsure>>

\* The schema the form is held to before it is sent.
Valid == content # 0

\* handleSubmit takes the values as they are now; the button is off meanwhile.
Send ==
    /\ Form
    /\ sending.at = "none"
    /\ Valid
    /\ sends < MaxSends
    /\ sends' = sends + 1
    /\ sending' = [at |-> "sent", content |-> content, path |-> path, state |-> "none"]
    /\ error' = "none"
    /\ UNCHANGED <<content, path, thinking, question, meter, submitted, drafts, history>>

---------------------------------------------------------------------------
(* What comes back.                                                        *)

\* form.getValues, when the answer is here.
KeptPath == path

\* A mutant that estimates the form it was sent.
EstimateAsSent == [content |-> Changed, meter |-> question.about]

\* QuestionEngineService.copilot: a template, and the estimate of that template.
Suggestion == [content |-> Changed, meter |-> Changed]

\* askCopilot: both are taken over, whatever the form has become.
Copilot ==
    /\ question.kind = "copilot"
    /\ Suggestion.content \in Contents
    /\ content' = Suggestion.content
    /\ path' = KeptPath
    /\ meter' = Suggestion.meter

\* checkBalance: an estimate of what was asked about.
CheckBalance ==
    /\ question.kind = "check"
    /\ meter' = question.about
    /\ UNCHANGED <<content, path>>

Think ==
    /\ Copilot \/ CheckBalance
    /\ thinking' = FALSE
    /\ question' = Away
    /\ UNCHANGED <<error, sending, submitted, drafts, sends, history>>

\* No engine, a refusal, or no answer.
ThinkFails ==
    /\ question # Away
    /\ thinking' = FALSE
    /\ question' = Away
    /\ error' = "co-pilot"
    /\ UNCHANGED <<content, path, meter, sending, submitted, drafts, sends, history>>

\* submit and screen: a draft is filed whichever way the screening went, and
\* none when the engine is away.
Screen(state) ==
    /\ sending.at = "sent"
    /\ sending' = [sending EXCEPT !.at = "screened", !.state = state]
    /\ drafts' = IF state = "unavailable" THEN drafts
                 ELSE Append(drafts, [content |-> sending.content, path |-> sending.path,
                                      state |-> state])
    /\ UNCHANGED <<content, path, thinking, question, meter, error, submitted, sends, history>>

Answer ==
    /\ sending.at = "screened"
    /\ IF sending.state = "unavailable"
       THEN error' = "unavailable" /\ UNCHANGED submitted
       ELSE submitted' = sending.state /\ UNCHANGED error
    /\ sending' = Unsent
    /\ UNCHANGED <<content, path, thinking, question, meter, drafts, sends, history>>

\* Lost before or after the screening.
LoseAnswer ==
    /\ sending.at # "none"
    /\ error' = "no answer"
    /\ sending' = Unsent
    /\ unsure' = TRUE
    /\ UNCHANGED <<content, path, thinking, question, meter, submitted, drafts, sends, chosen,
                   edited>>

Next ==
    \/ Edit \/ ApplyTemplate \/ Send
    \/ \E p \in Paths : Choose(p)
    \/ \E kind \in {"copilot", "check"} : Ask(kind)
    \/ Think \/ ThinkFails \/ Answer \/ LoseAnswer
    \/ \E state \in {"suggested", "rejected", "unavailable"} : Screen(state)

Spec == Init /\ [][Next]_vars

---------------------------------------------------------------------------

\* The path the form shows is the one the creator chose last, whatever answers
\* came in between (askCopilot, applyTemplate: "the creator chooses the
\* activation path, and it is not reversible").
PathIsChosen == path = chosen

\* When the meter moves it is about what the form holds, or the creator has
\* edited the form while the question was away (checkBalance: "the meter has
\* to keep moving").
MeterSpeaksOfTheForm == [][meter' # meter => meter' = content' \/ edited]_meter

\* One page files more than one draft only after an answer was lost, and what
\* the page is told was filed (onSubmit, submit).
FiledOnce ==
    /\ Len(drafts) > 1 => unsure
    /\ submitted # "none" => \E i \in DOMAIN drafts : drafts[i].state = submitted

FormTells == []PathIsChosen /\ []FiledOnce /\ MeterSpeaksOfTheForm
=============================================================================
