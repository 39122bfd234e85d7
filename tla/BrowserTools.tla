----------------------------- MODULE BrowserTools -----------------------------
(***************************************************************************)
(* The browser tools (tools lib.rs).  BrowserObserve runs a headless       *)
(* browser once for the page and once more for a screenshot.               *)
(* BrowserInteract starts a browser with remote debugging, talks to it     *)
(* over a websocket, clicks one element, waits, and captures the page.     *)
(* The browser is a process of its own: the page loads, changes, navigates *)
(* after a click, answers requests in order with what it shows at that     *)
(* moment, sends events and pings in between, and may exit.  A deadline    *)
(* may pass at any point.                                                  *)
(***************************************************************************)
EXTENDS Naturals, Sequences, FiniteSets

CONSTANTS BrowserInputs,     \* tool inputs
          MaxBrowserPolls,   \* requests per polling loop
          MaxNoise    \* events and pings the browser sends

VARIABLES input,      \* what the tool was asked
          phase,      \* how far the tool is
          child,      \* the browser process: "none", "starting", "listening", "exited", "killed"
          dir,        \* the browser's user-data directory exists
          page,       \* what the browser shows
          asked,      \* requests the browser has not answered
          inbox,      \* messages the tool has not read
          request_id, waiting, polls, noise,
          clicks,     \* history: clicks the page received
          report      \* what the tool returned

browserVars == <<input, phase, child, dir, page, asked, inbox, request_id, waiting, polls, noise, clicks, report>>

AllInputs ==
  [tool : {"observe", "interact"}, url : {"empty", "http", "file"}, action : {"click", "other"},
   wait : {"none", "load", "network_idle", "text", "title_contains", "url_contains", "selector"},
   value : BOOLEAN, timeout : {"none", "zero", "some", "over"}, viewport : {"ok", "bad"}, shot : BOOLEAN]

Blank == [v |-> 0, complete |-> FALSE, match |-> FALSE, button |-> "absent"]

ASSUME BrowserAssumption == BrowserInputs \subseteq AllInputs

BrowserInit ==
  /\ input \in BrowserInputs
  /\ phase = "start" /\ child = "none" /\ dir = FALSE /\ page = Blank
  /\ asked = <<>> /\ inbox = <<>> /\ request_id = 1 /\ waiting = 0 /\ polls = 0 /\ noise = 0
  /\ clicks = 0 /\ report = [is |-> "none"]

(***************************************************************************)
(* Inputs.                                                                 *)
(***************************************************************************)
validate_browser_interact_input(i) ==
  /\ i.url # "empty" /\ i.action = "click" /\ i.timeout \notin {"zero", "over"} /\ i.viewport = "ok"
  /\ i.wait = "load" => ~i.value
  /\ i.wait \in {"text", "title_contains", "url_contains"} => i.value
  /\ i.wait \notin {"network_idle", "selector"}

validate_browser_observe_input(i) ==
  /\ i.url # "empty" /\ i.timeout \notin {"zero", "over"} /\ i.viewport = "ok"
  /\ i.wait \in {"load", "network_idle"} => ~i.value
  /\ i.wait \in {"text", "title_contains"} => i.value
  /\ i.wait \notin {"selector", "url_contains"}

\* The virtual time given to the browser; none when there is nothing to wait for.
browser_virtual_time_budget_ms(i) ==
  IF i.wait \in {"network_idle", "text", "title_contains"}
  THEN (IF i.timeout = "none" THEN "default" ELSE "timeout") ELSE "none"

\* What the report of a wait needs of the input: nothing, or the value to find.
report_needs(i) ==
  CASE i.wait \in {"none", "load", "network_idle"} -> "nothing"
    [] i.wait \in {"text", "title_contains"} -> "value"
    [] i.wait = "url_contains" -> IF i.tool = "interact" THEN "value" ELSE "unsupported"
    [] OTHER -> "unsupported"

done(r) == phase' = "done" /\ report' = r
fails(why) == done([is |-> "error", why |-> why])

(***************************************************************************)
(* BrowserObserve.                                                         *)
(***************************************************************************)
run_browser_observe ==
  /\ phase = "start" /\ input.tool = "observe"
  /\ IF ~validate_browser_observe_input(input) THEN fails("input") /\ UNCHANGED child
     ELSE IF input.url = "file" THEN fails("scheme") /\ UNCHANGED child
     ELSE \/ fails("no browser") /\ UNCHANGED child
          \/ phase' = "dump" /\ child' = "starting" /\ UNCHANGED report
  /\ UNCHANGED <<input, dir, page, asked, inbox, request_id, waiting, polls, noise, clicks>>

\* run_browser_capture waits for the process; browser_wait_report then looks
\* for the text in the page as it was dumped.
observe_browser_page ==
  /\ phase = "dump"
  /\ child' = "exited"
  /\ \/ fails("browser status") /\ UNCHANGED page
     \/ \E m \in BOOLEAN :
          /\ page' = [Blank EXCEPT !.v = 1, !.complete = TRUE, !.match = m]
          /\ IF report_needs(input) = "unsupported" THEN fails("unsupported")
             ELSE IF report_needs(input) = "value" /\ ~m THEN fails("not observed")
             ELSE IF input.shot THEN phase' = "observe_shot" /\ UNCHANGED report
             ELSE done([is |-> "ok", state |-> page', shot |-> 0])
  /\ UNCHANGED <<input, dir, asked, inbox, request_id, waiting, polls, noise, clicks>>

\* The screenshot comes from a second browser that loads the page again.
observe_screenshot ==
  /\ phase = "observe_shot"
  /\ \/ fails("browser status")
     \/ done([is |-> "ok", state |-> page, shot |-> 2])
  /\ UNCHANGED <<input, child, dir, page, asked, inbox, request_id, waiting, polls, noise, clicks>>

(***************************************************************************)
(* BrowserInteract: launching.                                             *)
(***************************************************************************)
\* The child is dropped, which does not kill it, and the directory stays.
launch_failed(why) == fails(why) /\ UNCHANGED <<child, dir>>

run_browser_interact ==
  /\ phase = "start" /\ input.tool = "interact"
  /\ IF ~validate_browser_interact_input(input) THEN fails("input") /\ UNCHANGED <<child, dir>>
     ELSE IF input.url = "file" THEN fails("scheme") /\ UNCHANGED <<child, dir>>
     ELSE \/ fails("no browser") /\ UNCHANGED <<child, dir>>
          \/ fails("spawn failed") /\ dir' = TRUE /\ UNCHANGED child
          \/ phase' = "port" /\ child' = "starting" /\ dir' = TRUE /\ UNCHANGED report
  /\ UNCHANGED <<input, page, asked, inbox, request_id, waiting, polls, noise, clicks>>

\* The port file, a page target, the websocket: each until the deadline.
wait_for_browser_devtools_port ==
  /\ phase = "port"
  /\ \/ child = "listening" /\ phase' = "target" /\ UNCHANGED <<child, dir, report>>
     \/ child = "exited" /\ launch_failed("exited early")
     \/ launch_failed("port timeout")
  /\ UNCHANGED <<input, page, asked, inbox, request_id, waiting, polls, noise, clicks>>

discover_browser_devtools_target ==
  /\ phase = "target"
  /\ \/ child = "listening" /\ phase' = "connect" /\ UNCHANGED <<child, dir, report>>
     \/ launch_failed("no target")
  /\ UNCHANGED <<input, page, asked, inbox, request_id, waiting, polls, noise, clicks>>

connect ==
  /\ phase = "connect"
  /\ \/ child = "listening" /\ phase' = "load" /\ UNCHANGED <<child, dir, report>>
     \/ launch_failed("handshake")
  /\ UNCHANGED <<input, page, asked, inbox, request_id, waiting, polls, noise, clicks>>

(***************************************************************************)
(* BrowserInteract: the session.  Whatever ends it, Drop closes the        *)
(* socket, kills the browser and removes the directory.                    *)
(***************************************************************************)
\* Mutant: the browser is left to exit on its own.
drop_detached == UNCHANGED child /\ dir' = FALSE

drop == child' = "killed" /\ dir' = FALSE

Session == {"load", "probe", "click", "capture", "screenshot"}
quits(r) == done(r) /\ drop

call ==
  /\ phase \in Session /\ waiting = 0 /\ polls < MaxBrowserPolls
  /\ asked' = Append(asked, [id |-> request_id, what |-> phase])
  /\ waiting' = request_id /\ request_id' = request_id + 1 /\ polls' = polls + 1
  /\ UNCHANGED <<input, phase, child, dir, page, inbox, noise, clicks, report>>

\* wait_for_selector and wait_for_page_condition give up at the deadline.
wait_for_page_condition ==
  /\ phase \in {"load", "probe", "capture"} /\ waiting = 0 /\ polls > 0
  /\ quits([is |-> "error", why |-> "not satisfied in time"])
  /\ UNCHANGED <<input, page, asked, inbox, request_id, waiting, polls, noise, clicks>>

\* The read fails: the deadline passed, or the connection is gone.
read_exact_until ==
  /\ phase \in Session /\ waiting # 0
  /\ quits([is |-> "error", why |-> "read"])
  /\ UNCHANGED <<input, page, asked, inbox, request_id, waiting, polls, noise, clicks>>

\* An answer counts when it carries the id of the request.
answers(m) == m.kind = "answer" /\ m.id = waiting

Satisfied(s) == input.wait \in {"none"} \/ (IF input.wait = "load" THEN s.complete ELSE s.match)

\* What the phase does with the answer to its request.
took(s) ==
  LET on(p) == phase' = p /\ polls' = 0 /\ UNCHANGED <<child, dir, report>>
      again == UNCHANGED <<phase, polls, child, dir, report>>
      captured == [is |-> "captured", state |-> s.page, clicks |-> s.clicks]
      finish(c, shot) == quits([is |-> "ok", state |-> c.state, clicks |-> c.clicks, shot |-> shot]) /\ UNCHANGED polls IN
  CASE phase = "load" -> IF s.page.complete THEN on("probe") ELSE again
    [] phase = "probe" -> IF s.page.button = "ready" THEN on("click") ELSE again
    [] phase = "click" -> IF s.clicked THEN on("capture")
                          ELSE quits([is |-> "error", why |-> "not clickable"]) /\ UNCHANGED polls
    [] phase = "capture" -> IF ~Satisfied(s.page) THEN again
                            ELSE IF input.shot THEN /\ phase' = "screenshot" /\ polls' = 0 /\ report' = captured
                                                    /\ UNCHANGED <<child, dir>>
                            ELSE finish(captured, 0)
    [] OTHER -> finish(report, s.page.v)

\* read_text answers a ping and skips what is not text; call skips what does
\* not answer it.
read_text ==
  LET m == Head(inbox) IN
  /\ phase \in Session /\ waiting # 0 /\ inbox # <<>>
  /\ inbox' = Tail(inbox)
  /\ IF m.kind = "close" THEN quits([is |-> "error", why |-> "closed"]) /\ UNCHANGED <<waiting, polls>>
     ELSE IF answers(m) THEN waiting' = 0 /\ took(m)
     ELSE UNCHANGED <<phase, child, dir, waiting, polls, report>>
  /\ UNCHANGED <<input, page, asked, request_id, noise, clicks>>

(***************************************************************************)
(* The browser.                                                            *)
(***************************************************************************)
Alive == child \in {"starting", "listening"} /\ input.tool = "interact"

listens == child = "starting" /\ input.tool = "interact" /\ child' = "listening"
           /\ UNCHANGED <<input, phase, dir, page, asked, inbox, request_id, waiting, polls, noise, clicks, report>>

exits ==
  /\ Alive /\ child' = "exited"
  /\ inbox' = IF phase \in Session THEN Append(inbox, [kind |-> "close"]) ELSE inbox
  /\ UNCHANGED <<input, phase, dir, page, asked, request_id, waiting, polls, noise, clicks, report>>

page_changes ==
  /\ Alive
  /\ \/ ~page.complete /\ page' = [page EXCEPT !.v = IF @ = 0 THEN 1 ELSE @, !.complete = TRUE]
     \/ page.v > 0 /\ ~page.match /\ page' = [page EXCEPT !.match = TRUE]
     \/ page.v > 0 /\ \E b \in {"absent", "disabled", "ready"} : b # page.button /\ page' = [page EXCEPT !.button = b]
     \/ clicks > 0 /\ page.v = 1 /\ page' = [Blank EXCEPT !.v = 2]     \* the click navigates
  /\ UNCHANGED <<input, phase, child, dir, asked, inbox, request_id, waiting, polls, noise, clicks, report>>

\* Requests are answered in order; a click that finds its element is performed.
evaluates ==
  LET r == Head(asked)
      hit == r.what = "click" /\ page.button # "absent" IN
  /\ child = "listening" /\ asked # <<>>
  /\ asked' = Tail(asked)
  /\ clicks' = IF hit THEN clicks + 1 ELSE clicks
  /\ inbox' = Append(inbox, [kind |-> "answer", id |-> r.id, page |-> page, clicked |-> hit, clicks |-> clicks'])
  /\ UNCHANGED <<input, phase, child, dir, page, request_id, waiting, polls, noise, report>>

chatters ==
  /\ child = "listening" /\ phase \in Session /\ noise < MaxNoise
  /\ noise' = noise + 1
  /\ \E k \in {"event", "ping"} : inbox' = Append(inbox, [kind |-> k])
  /\ UNCHANGED <<input, phase, child, dir, page, asked, request_id, waiting, polls, clicks, report>>

BrowserNext ==
  \/ run_browser_observe \/ observe_browser_page \/ observe_screenshot
  \/ run_browser_interact \/ wait_for_browser_devtools_port \/ discover_browser_devtools_target \/ connect
  \/ call \/ wait_for_page_condition \/ read_exact_until \/ read_text
  \/ listens \/ exits \/ page_changes \/ evaluates \/ chatters

----------------------------------------------------------------------------
(***************************************************************************)
(* Properties.                                                             *)
(***************************************************************************)
Ok == report.is = "ok"

\* An input that passes validation is one every later step can handle: the
\* wait it names is supported and comes with the value it needs, so no step
\* finds an unsupported wait or panics on a missing value.
ValidatedIsHandled ==
  /\ phase \notin {"start", "done"} =>
       /\ report_needs(input) # "unsupported"
       /\ report_needs(input) = "value" => input.value
  /\ report.is = "error" => report.why # "unsupported"

\* One call clicks at most once; a call that succeeds clicked exactly once,
\* and the page it reports was captured after the click and satisfied the wait.
ReportFollowsClick ==
  /\ clicks <= 1
  /\ (Ok /\ input.tool = "interact") => clicks = 1 /\ report.clicks = 1 /\ Satisfied(report.state)

\* Once a call is over its browser is gone and so is the directory, except
\* when the browser had been started and the session never came about.
BrowserGone ==
  phase = "done" =>
    \/ child \in {"none", "exited", "killed"} /\ ~dir
    \/ report.is = "error" /\ report.why \in {"spawn failed", "exited early", "port timeout", "no target", "handshake"}

BrowserSound == ValidatedIsHandled /\ ReportFollowsClick /\ BrowserGone
----------------------------------------------------------------------------
(***************************************************************************)
(* Why.  One request is on its way at a time: it waits at the browser, or  *)
(* its answer is the only one in the inbox.  So the click is asked for     *)
(* once, and what is captured afterwards was shown after it.               *)
(***************************************************************************)
BrowserPage == [v : Nat, complete : BOOLEAN, match : BOOLEAN, button : {"absent", "disabled", "ready"}]
Answer == [kind : {"answer"}, id : Nat, page : BrowserPage, clicked : BOOLEAN, clicks : Nat]
WireMessage == [kind : {"event", "ping", "close"}] \cup Answer
Launching == {"port", "target", "connect"}

BrowserTypeOK ==
  /\ input \in BrowserInputs /\ page \in BrowserPage /\ dir \in BOOLEAN
  /\ phase \in {"start", "dump", "observe_shot", "done"} \cup Launching \cup Session
  /\ child \in {"none", "starting", "listening", "exited", "killed"}
  /\ inbox \in Seq(WireMessage) /\ request_id \in Nat \ {0} /\ waiting \in Nat /\ clicks \in Nat

\* Each tool is in phases of its own, with an input that passed.
InputPassed ==
  /\ phase \in {"dump", "observe_shot"} => input.tool = "observe" /\ validate_browser_observe_input(input)
  /\ phase \in Launching \cup Session => input.tool = "interact" /\ validate_browser_interact_input(input)

\* The browser by phase.
BrowserStarted ==
  /\ phase = "start" => child = "none" /\ ~dir
  /\ phase = "dump" => child = "starting" /\ ~dir
  /\ phase = "observe_shot" => child = "exited" /\ ~dir

NoAnswer == \A i \in 1..Len(inbox) : inbox[i].kind # "answer"

\* The answer to the request, with what it says of the click.
AnswerThere ==
  \E i \in 1..Len(inbox) :
    /\ inbox[i] \in Answer /\ inbox[i].id = waiting /\ inbox[i].clicks = clicks
    /\ phase = "click" => (inbox[i].clicked <=> clicks = 1)
    /\ \A j \in 1..Len(inbox) : inbox[j].kind = "answer" => j = i

Wire ==
  /\ phase \in Session =>
       IF waiting = 0 THEN asked = <<>> /\ NoAnswer
       ELSE \/ asked = <<[id |-> waiting, what |-> phase]>> /\ NoAnswer
            \/ asked = <<>> /\ AnswerThere
  /\ phase \notin Session => asked = <<>> \/ child = "killed"
  /\ phase \notin Session \cup {"done"} => inbox = <<>> /\ waiting = 0

ClickedOnce ==
  /\ clicks <= 1
  /\ phase \notin {"click", "capture", "screenshot", "done"} => clicks = 0
  /\ phase = "click" => clicks = 0 \/ (waiting # 0 /\ asked = <<>>)
  /\ phase \in {"capture", "screenshot"} => clicks = 1

Reported ==
  /\ phase \notin {"screenshot", "done"} => report.is = "none"
  /\ phase = "screenshot" => report.is = "captured" /\ report.clicks = 1 /\ Satisfied(report.state)

BrowserInv ==
  /\ BrowserTypeOK /\ InputPassed /\ BrowserStarted /\ Wire /\ ClickedOnce /\ Reported /\ BrowserSound
=============================================================================
