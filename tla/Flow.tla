---------------------------------- MODULE Flow ----------------------------------
(***************************************************************************)
(* Package checks/flow: two flows, one after the other, each of two        *)
(* requests, the second of which uses what the first let it capture.       *)
(***************************************************************************)
EXTENDS Probing

\* named: each flow has a name of its own, or none.  extract: the first step captures
\* the token; otherwise the second has none to use.
FlowConfig == [named : BOOLEAN, extract : BOOLEAN, expectBody : BOOLEAN, stepLatencyMS : 0 .. 1, flowLatencyMS : {0, 3},
           bodyEnv : BOOLEAN, caReadable : BOOLEAN]

\* bodySet: the environment has the body the second step sends.
FlowServer == [bodySet : BOOLEAN]

\* f1, f2: the first step of that flow is answered; the rest is the same for both.
\* token: the first answer has the value looked for.  latency: of each step.
FlowScale == [f1 |-> Bool, f2 |-> Bool, answers2 |-> Bool, status |-> <<"expected", "other">>, body |-> Bool,
          token |-> Bool, latency |-> <<1, 2>>]

\* What a step comes to: captured is what the flow knows, fails how the step ended.
Start == [captured |-> {}, fails |-> "no"]

substitute(uses, captured) == uses \subseteq captured
stepBody(c, o) == c.bodyEnv => o.bodySet

\* A failure to measure is an ERROR, an answer that is wrong is BAD.
statusFor(err) == CASE err = "no" -> "OK" [] err = "measure" -> "ERROR" [] OTHER -> "BAD"

login(c, o, f, flow) ==
  IF ~o[f] THEN [flow EXCEPT !.fails = "measure"]
  ELSE IF c.extract /\ ~o.token THEN [flow EXCEPT !.fails = "expectation"]
  ELSE [flow EXCEPT !.captured = IF c.extract THEN {"token"} ELSE {}]

use(c, o, flow) ==
  IF ~substitute({"token"}, flow.captured) \/ ~stepBody(c, o) \/ ~o.answers2
  THEN [flow EXCEPT !.fails = "measure"]
  ELSE IF o.status # "expected" \/ (c.expectBody /\ ~o.body) THEN [flow EXCEPT !.fails = "expectation"]
  ELSE flow

\* A failed step stops the flow.
Steps(c, o, f) ==
  LET flow == login(c, o, f, Start)
  IN  IF flow.fails # "no" THEN flow ELSE use(c, o, flow)

run(c, o, f) ==
  LET fails == Steps(c, o, f).fails
  IN  FirstOf(<<Error(~c.caReadable),
                statusFor(fails),
                Warn(c.flowLatencyMS > 0 /\ 2 * o.latency > c.flowLatencyMS),
                Warn(c.stepLatencyMS > 0 /\ o.latency > c.stepLatencyMS)>>)

\* Flows without a name all go by the same one.
flowName(c, f) == IF c.named THEN f ELSE "flow"

FlowRun(c, o) == Each(<<"f1", "f2">>, LAMBDA f : Say(flowName(c, f), Absent, run(c, o, f)))
=============================================================================
