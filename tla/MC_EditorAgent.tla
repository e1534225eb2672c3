--------------------------- MODULE MC_EditorAgent ---------------------------
(* Two people at one document for TLC: the cfo writes its first line.      *)
EXTENDS EditorAgent
CONSTANTS cfo, eng, w1, w2

Text(k) == [kind |-> k]
Ask(q) == [kind |-> "ask", to |-> w1, about |-> q]
Question(q) == [kind |-> "Q", about |-> q]

Session(script, watchers, ends) ==
    [script |-> script, watchers |-> watchers, drops |-> ends]

mcAuthor == <<cfo, eng, eng>>

(* Two asks, one of them typed in two steps and one denied, and a watch    *)
(* that starts again; an ask and a question at once; a question with an    *)
(* empty line below it that becomes an answer; two watchers; a line that   *)
(* has for a moment the text of another.                                   *)
mcPlans ==
    {Session(<<<<Ask("half"), Ask("whole")>>, <<Ask("salary")>>, << >>>>, {w1}, 1),
     Session(<<<<Ask("whole")>>, <<Question("runway")>>, << >>>>, {w1}, 0),
     Session(<<<<Question("half"), Question("whole")>>,
               <<Text("empty"), Text("A")>>, << >>>>, {w1}, 0),
     Session(<<<<Question("runway")>>, << >>, << >>>>, {w1, w2}, 0),
     Session(<<<<Question("runway")>>, <<Question("runway"), Text("prose")>>, << >>>>, {w1}, 0)}

mcServes == [w \in Watchers |-> {w}]
mcRemembered == Texts \ {Text("empty"), Text("A"), Question("half")}
mcReadable == {cfo, w1} \X mcRemembered
=============================================================================
