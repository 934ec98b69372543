---------------------------- MODULE MCComputer ----------------------------
(***************************************************************************)
(* Computer with small programs.  Each root program is a scenario of its   *)
(* own; the state spaces add up instead of multiplying.                    *)
(***************************************************************************)
EXTENDS Computer

MCTasks == {1, 2}
MCTexts == {<<2>>}

Asks(first, second) == [t \in MCTasks |-> IF t = 1 THEN first ELSE second]
Program(ops, runs) ==
    [ops |-> ops, runs |-> runs, ends |-> TRUE, works |-> FALSE, typed |-> TRUE, wired |-> FALSE]

MCPrograms == [
    boot |-> Program(Asks({"run"}, {}), {"shell"}),
    shell |-> Program(Asks({"readLine", "run", "takeDiagnostic"}, {"external"}), {"editor", "modded"}),
    modded |-> Program(Asks({"addon"}, {}), {}),
    editor |-> Program(Asks({"await", "event", "finish", "exit"}, {"awaitLine"}), {}),
    launcher |-> [Program(Asks({"run"}, {"external"}), {"caller"}) EXCEPT !.typed = FALSE],
    caller |-> [Program(Asks({"call", "external"}, {"external"}), {}) EXCEPT !.typed = FALSE],
    sensor |-> [Program(Asks({"waitChange", "call"}, {"waitLevel"}), {})
                   EXCEPT !.typed = FALSE, !.wired = TRUE],
    builder |-> [Program(Asks({"compile"}, {"run"}), {"kotlinc", "caller"}) EXCEPT !.typed = FALSE],
    kotlinc |-> [Program(Asks({"exit"}, {}), {}) EXCEPT !.ends = FALSE, !.typed = FALSE],
    make |-> [Program(Asks({"run"}, {}), {"compiler"}) EXCEPT !.typed = FALSE],
    compiler |-> [Program(Asks({"compile", "exit"}, {}), {}) EXCEPT !.ends = FALSE, !.typed = FALSE],
    worker |-> [Program(Asks({"run"}, {}), {"worker"}) EXCEPT !.works = TRUE, !.typed = FALSE]]

\* A task waits for redstone while another runs a program.
MCWaiting == [MCPrograms EXCEPT !.sensor = [@ EXCEPT !.ops = Asks({"waitLevel"}, {"run"}), !.runs = {"sensor"}]]

MCRoots == {"boot", "launcher", "sensor", "builder", "make", "worker"}
=============================================================================
