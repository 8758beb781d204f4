------------------------------ MODULE TransactionFlow ------------------------------
(***************************************************************************)
(* How a page of the dapp sends transactions: TransactionButton runs a list *)
(* of steps one after the other, and the modals around the page tell the    *)
(* user what is going on and what came of it.                               *)
(*                                                                         *)
(* One page is followed from the moment it is shown until it is left.  The  *)
(* modals cover the whole page and lie in the order they were opened, so    *)
(* only the buttons of the last one can be pressed, and the page's button   *)
(* only when none is open.  What a step sends is left out: the wallet or    *)
(* the server answers it in any way the step's call can be answered.        *)
(*                                                                         *)
(* What the button defers by setImmediate (preTransaction, the handler of   *)
(* errors, what follows the last step) happens in the step that defers it,  *)
(* before any later answer or click.  Left out are requireBeforeTransaction, *)
(* for which two pages of the newsroom manager wait before the button is    *)
(* disabled; a postTransaction that throws, which the button would take for *)
(* a failed transaction; and a page that changes "disabled" while a run is  *)
(* under way, which would enable the button again.                          *)
(***************************************************************************)
EXTENDS Sequences, FiniteSets, FiniteSetsExt, Naturals

CONSTANTS
    Page,       \* the table of each page, by its name
    MaxRuns     \* bound: how many runs of a page's steps can be under way

(***************************************************************************)
(* A page: its steps; what follows the last one ("success", "leave" or      *)
(* "nothing"); what the button of the success modal does ("closeAll",       *)
(* "closeSuccess" or "leave"); whether "Try Again" knows the steps; and for *)
(* which steps the modals have something to say.                            *)
(* A step: its name; the modal it opens and those it shuts; the answers its *)
(* call can have; the modal shown when the transaction has its hash; whether *)
(* it then shows success; whether it handles errors, and how it tells a      *)
(* user's denial.                                                           *)
(***************************************************************************)
Modals  == {"waiting", "progress", "ipfs", "success", "error", "rejection"}
Answers == {"nothing", "declined", "value", "tx"}
Step == [key : STRING, opens : Modals, shuts : SUBSET Modals, answers : SUBSET Answers,
         hash : {"progress", "waiting", "none"}, post : BOOLEAN,
         denial : {"rejection", "error", "unhandled"}]
IsPage(p) ==
    /\ p.steps \in Seq(Step) /\ p.steps # <<>>
    /\ p.finish \in {"success", "leave", "nothing"}
    /\ p.ok \in {"closeAll", "closeSuccess", "leave"}
    /\ p.remembered \in BOOLEAN
    /\ DOMAIN p.content = {"success", "error", "rejection"}

(* What the modals' order and the end of a run depend on: a step opens a modal    *)
(* without buttons and shuts what earlier steps may have shown; a page that       *)
(* uploads is left by its success modal; the last step sends something, and shows *)
(* success unless the page's own button does.                                     *)
ShownBy(p) == UNION {{p.steps[k].opens, p.steps[k].hash} : k \in DOMAIN p.steps}
WellMade(p) ==
    /\ \A k \in DOMAIN p.steps :
           /\ p.steps[k].opens \in {"waiting", "progress", "ipfs"}
           /\ (ShownBy(p) \cap {"waiting", "progress"}) \ {p.steps[k].opens} \subseteq p.steps[k].shuts
           /\ "success" \in p.steps[k].shuts
           /\ p.steps[k].opens = "ipfs" => p.ok = "leave"
    /\ "nothing" \notin p.steps[Len(p.steps)].answers
    /\ p.finish = "nothing" => p.steps[Len(p.steps)].post
FlowAssumption ==
    /\ \A f \in DOMAIN Page : IsPage(Page[f]) /\ WellMade(Page[f])
    /\ MaxRuns \in Nat \ {0}

Slots   == 1 .. MaxRuns
Buttons == {"page", "retry"}
Idle    == [by |-> "nobody", step |-> 0, mining |-> FALSE]

VARIABLES
    flow,       \* the page
    open,       \* modal -> its place from below, or 0 when it is closed
    shown,      \* the step the modals speak of (transactionType)
    runs,       \* the runs under way
    busy,       \* the buttons that are disabled by their run
    last,       \* how the last run that ended came out
    spoiled,    \* whether "Try Again" was pressed, a call declined, an error not handled
                \* or came when the upload's modal was still open
    left        \* whether the page was left

flowVars == <<flow, open, shown, runs, busy, last, spoiled, left>>

NoModals      == [m \in Modals |-> 0]
IsOpen(modal) == open[modal] # 0
OnTop(modal)  == IsOpen(modal) /\ \A m \in Modals : open[m] <= open[modal]
Top           == IF open = NoModals THEN "none" ELSE CHOOSE m \in Modals : OnTop(m)
Steps         == Page[flow].steps
Live(r)       == runs[r] # Idle
StepOf(r)     == Steps[runs[r].step]
IsLast(r)     == runs[r].step = Len(Steps)

(* A modal without content for the step throws while it is rendered. *)
ContentMissing ==
    \E modal \in {"success", "error", "rejection"} :
        IsOpen(modal) /\ shown \notin Page[flow].content[modal]
Alive == ~left /\ ~ContentMissing

FlowInit ==
    /\ flow \in DOMAIN Page
    /\ open = NoModals /\ shown = ""
    /\ runs = [r \in Slots |-> Idle]
    /\ busy = [b \in Buttons |-> FALSE]
    /\ last = "none" /\ spoiled = FALSE /\ left = FALSE

------------------------------------------------------------------------------------
(* What an update makes of the modals. *)

Shut(modals, shut)  == [m \in Modals |-> IF m \in shut THEN 0 ELSE modals[m]]
Show(modals, modal) ==
    IF modals[modal] # 0 THEN modals
    ELSE [modals EXCEPT ![modal] = 1 + Max({modals[m] : m \in Modals})]

CloseAll(modals) == Shut(modals, Modals \ {"ipfs"})

WithHash(step, modals) ==
    CASE step.hash = "progress" -> Show(Shut(modals, {"waiting"}), "progress")
      [] step.hash = "waiting"  -> Show(Shut(modals, {"progress"}), "waiting")
      [] step.hash = "none"     -> modals

WithSuccess(modals) == Show(Shut(modals, {"waiting", "progress"}), "success")

WithPostOverProgress(step, modals) ==                                      \* faulty
    IF step.post THEN Show(Shut(modals, {"waiting"}), "success") ELSE modals

WithPost(step, modals) == IF step.post THEN WithSuccess(modals) ELSE modals

WithError(step, denied, modals) ==
    IF step.denial = "unhandled" THEN modals
    ELSE LET tells == IF denied THEN step.denial ELSE "error"
         IN  Show(Shut(modals, Modals \ {"ipfs", tells}), tells)

Finished(modals) ==
    CASE Page[flow].finish = "success" -> WithSuccess(modals)
      [] Page[flow].finish = "leave"   -> NoModals
      [] Page[flow].finish = "nothing" -> modals

------------------------------------------------------------------------------------
(* executeTransactions.  The button of "Try Again" goes with its modal. *)

SetBusy(b, disabled) ==
    LET now == [busy EXCEPT ![b] = disabled]
    IN  busy' = [now EXCEPT !["retry"] = @ /\ IsOpen("rejection")']

Enter(r, b, k, modals) ==
    /\ runs' = [runs EXCEPT ![r] = [by |-> b, step |-> k, mining |-> FALSE]]
    /\ open' = Show(Shut(modals, Steps[k].shuts), Steps[k].opens)
    /\ shown' = Steps[k].key
    /\ UNCHANGED <<last, left>>

(* The next step, or, after the last, what only the page's own button does. *)
Advance(r, modals, enables) ==
    /\ IF IsLast(r)
       THEN /\ runs' = [runs EXCEPT ![r] = Idle]
            /\ open' = IF runs[r].by = "page" THEN Finished(modals) ELSE modals
            /\ left' = (runs[r].by = "page" /\ Page[flow].finish = "leave")
            /\ last' = "done"
            /\ UNCHANGED shown
       ELSE Enter(r, runs[r].by, runs[r].step + 1, modals)
    /\ SetBusy(runs[r].by, ~(IsLast(r) /\ enables))
    /\ UNCHANGED flow

Clickable(b) ==
    /\ ~busy[b]
    /\ IF b = "page" THEN open = NoModals ELSE Top = "rejection" /\ Page[flow].remembered

Click(b) ==
    /\ Alive /\ Clickable(b)
    /\ \E r \in Slots : ~Live(r) /\ Enter(r, b, 1, open)
    /\ SetBusy(b, TRUE)
    /\ spoiled' = (spoiled \/ b = "retry")
    /\ UNCHANGED flow

(* The call returns nothing, because nothing was to be done or because the page *)
(* declined to send what was asked: no handler is called, no button enabled.   *)
AnswerNothing(r) ==
    /\ Alive /\ Live(r) /\ ~runs[r].mining
    /\ \/ "nothing" \in StepOf(r).answers /\ UNCHANGED spoiled
       \/ "declined" \in StepOf(r).answers /\ spoiled' = TRUE
    /\ Advance(r, open, FALSE)

AnswerValue(r) ==
    /\ Alive /\ Live(r) /\ ~runs[r].mining /\ "value" \in StepOf(r).answers
    /\ Advance(r, WithPost(StepOf(r), WithHash(StepOf(r), open)), TRUE)
    /\ UNCHANGED spoiled

AnswerHash(r) ==
    /\ Alive /\ Live(r) /\ ~runs[r].mining /\ "tx" \in StepOf(r).answers
    /\ runs' = [runs EXCEPT ![r].mining = TRUE]
    /\ open' = WithHash(StepOf(r), open)
    /\ UNCHANGED <<flow, shown, busy, last, spoiled, left>>

Receipt(r) ==
    /\ Alive /\ Live(r) /\ runs[r].mining
    /\ Advance(r, WithPost(StepOf(r), open), TRUE)
    /\ UNCHANGED spoiled

(* The call or the receipt throws; the user can deny only what is not yet sent. *)
Fail(r, denied) ==
    /\ Alive /\ Live(r)
    /\ denied => ~runs[r].mining /\ StepOf(r).answers # {"value"}
    /\ runs' = [runs EXCEPT ![r] = Idle]
    /\ open' = WithError(StepOf(r), denied, open)
    /\ SetBusy(runs[r].by, FALSE)
    /\ last' = "failed"
    /\ spoiled' = (spoiled \/ StepOf(r).denial = "unhandled" \/ IsOpen("ipfs"))
    /\ UNCHANGED <<flow, shown, left>>

------------------------------------------------------------------------------------
(* The other buttons of the modals; waiting, progress and ipfs have none. *)

Closed(modals) ==
    /\ open' = modals
    /\ SetBusy("retry", busy["retry"])
    /\ UNCHANGED <<flow, shown, runs, last, spoiled>>

Dismiss ==
    /\ Alive /\ Top \in {"error", "rejection"}
    /\ Closed(CloseAll(open))
    /\ UNCHANGED left

PressOk ==
    /\ Alive /\ Top = "success"
    /\ CASE Page[flow].ok = "closeAll"     -> Closed(CloseAll(open)) /\ UNCHANGED left
         [] Page[flow].ok = "closeSuccess" -> Closed(Shut(open, {"success"})) /\ UNCHANGED left
         [] Page[flow].ok = "leave"        -> Closed(NoModals) /\ left' = TRUE

FlowNext ==
    \/ \E b \in Buttons : Click(b)
    \/ \E r \in Slots : AnswerNothing(r) \/ AnswerValue(r) \/ AnswerHash(r) \/ Receipt(r)
    \/ \E r \in Slots, denied \in BOOLEAN : Fail(r, denied)
    \/ Dismiss \/ PressOk

FlowSpec == FlowInit /\ [][FlowNext]_flowVars

------------------------------------------------------------------------------------
(* Properties. *)

(* The steps of a page are never sent twice at the same time: the votes or   *)
(* tokens of one click are not committed by another run as well.             *)
OneRun == \A r, s \in Slots : Live(r) /\ Live(s) => r = s

(* What the user sees is so: a modal without buttons only while something is *)
(* under way, success only when every step went through, failure only when   *)
(* the last run failed, and a free button when nothing is shown.             *)
Truthful ==
    LET working == \E r \in Slots : Live(r)
    IN  ~left =>
        /\ Top \in {"waiting", "progress", "ipfs"} => working
        /\ Top = "success" => last = "done" /\ ~working
        /\ Top \in {"rejection", "error"} => last = "failed" /\ ~working
        /\ Top = "none" => ~busy["page"]

(* The pages whose tables leave nothing behind when "Try Again" is used or a  *)
(* step fails; all others are only good for as long as neither happens.       *)
RetrySafe ==
    /\ \A k \in 1 .. Len(Steps) : /\ Steps[k].denial # "unhandled"
                                  /\ "declined" \notin Steps[k].answers
                                  /\ Steps[k].opens # "ipfs"
                                  /\ Steps[k].hash # "waiting"
    /\ Steps[Len(Steps)].post \/ ~Page[flow].remembered
    /\ Page[flow].ok # "closeSuccess" \/ {"rejection", "error"} \subseteq Steps[1].shuts

(* Whoever sent the transactions of a page that can be retried safely, or of *)
(* any page in a run that was not disturbed, is told the truth about them     *)
(* and hears of the success in the moment it is there.                        *)
FlowSound ==
    /\ [](OneRun /\ (RetrySafe \/ ~spoiled => Truthful))
    /\ [][last' = "done" /\ (\E r \in Slots : Live(r) /\ ~Live(r)') /\ (RetrySafe \/ ~spoiled')
              => Top' = "success" \/ left']_flowVars

(* TransactionStatusModalsHOC.tsx:203 asserts that the rejection modal always *)
(* has a text for the step it is shown for (denialContent[1] as string).      *)
ContentExists == ~ContentMissing
====================================================================================
