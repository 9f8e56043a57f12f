------------------------------ MODULE MCPipeline ------------------------------
(***************************************************************************)
(* Four keys of one host: SSH and HTTPS on db, postgres on db, and a node  *)
(* of db under a target that names no host.  Days of four hours, two days. *)
(***************************************************************************)
EXTENDS Pipeline

Patroni == 1
Postgres == 2
Tcp == 3
SSH == 1
HTTPS == 2
Sql == 3
Node == 4

MCSpelled ==
  << [host |-> "db", part |-> ""], [host |-> "db", part |-> ""],
     [host |-> "db", part |-> ""], [host |-> "db", part |-> "leader"] >>

MCClock == {[day |-> d, at |-> h, date |-> 4 * d + h] : d \in 0 .. 1, h \in 0 .. 3}

MCKeys == {<<Tcp, SSH>>, <<Tcp, HTTPS>>, <<Postgres, Sql>>, <<Patroni, Node>>}

\* What may be found: one status for each key, or only so bad.
One == {{s} : s \in Status}
AnyOf(keys) == [keys -> One]
Three == {<<Tcp, SSH>>, <<Tcp, HTTPS>>, <<Postgres, Sql>>}
Two == {<<Tcp, SSH>>, <<Postgres, Sql>>}
Twice == [Two -> One \cup {{"OK", "BAD"}, {"WARN", "BAD"}}]

Plain ==
  [windows |-> <<>>, rules |-> <<>>, exitOn |-> "BAD", exitOnBad |-> FALSE, failOnNew |-> FALSE,
   baseline |-> FALSE, only |-> {}, minSeverity |-> "", target |-> {}, sinks |-> 1, found |-> AnyOf(Two)]

Window(check, daily, weekdays, action) ==
  [check |-> check, target |-> {}, from |-> <<>>, to |-> <<>>, action |-> action,
   daily |-> daily, weekdays |-> weekdays]

Night   == Window({Postgres}, <<3, 0>>, {1}, "mute")
Noon    == Window({}, <<1, 2>>, {}, "warn")
Broken  == Window({}, <<2>>, {}, "mute")
Move    == [Window({Tcp}, <<>>, {0}, "mute") EXCEPT !.target = {SSH}, !.from = <<2>>, !.to = <<4>>]

Rule(check, onCheck, onTarget) ==
  [check |-> check, target |-> {}, onCheck |-> {onCheck}, onTarget |-> onTarget, sameHost |-> onTarget = {}]

SqlOnHost == Rule({Postgres}, Tcp, {})
NodeOnSql == Rule({Patroni}, Postgres, {Sql})
SshLast   == Rule({Tcp}, Patroni, {Node})
TcpOnSsh  == Rule({Tcp}, Tcp, {SSH})
AllOnHost == Rule({}, Tcp, {})
Nameless  == [SqlOnHost EXCEPT !.onCheck = {}]

MCSetups ==
  { [Plain EXCEPT !.windows = <<Night, Noon>>, !.exitOn = "WARN"],
    [Plain EXCEPT !.windows = <<Broken, Move, Noon>>, !.rules = <<SqlOnHost>>, !.sinks = 2],
    [Plain EXCEPT !.rules = <<SqlOnHost, NodeOnSql>>, !.found = AnyOf(MCKeys)],
    [Plain EXCEPT !.rules = <<NodeOnSql, SshLast>>, !.found = AnyOf(MCKeys)],
    [Plain EXCEPT !.rules = <<SqlOnHost, NodeOnSql, SshLast>>, !.found = AnyOf(MCKeys)],
    [Plain EXCEPT !.rules = <<TcpOnSsh>>, !.found = AnyOf(Three)],
    [Plain EXCEPT !.rules = <<AllOnHost>>, !.found = AnyOf(Three)],
    [Plain EXCEPT !.rules = <<Nameless>>],
    [Plain EXCEPT !.exitOn = "", !.sinks = 2],
    [Plain EXCEPT !.exitOn = "", !.exitOnBad = TRUE, !.minSeverity = "ERROR", !.only = {Tcp}],
    [Plain EXCEPT !.baseline = TRUE, !.exitOn = "ERROR"],
    [Plain EXCEPT !.baseline = TRUE, !.failOnNew = TRUE, !.exitOn = "", !.found = Twice],
    [Plain EXCEPT !.baseline = TRUE, !.failOnNew = TRUE, !.exitOn = "WARN", !.sinks = 2,
                  !.rules = <<SqlOnHost>>, !.minSeverity = "WARN"] }

MCIssueKeys == Two
MCConditions == {{"OK"}, {"ERROR"}, {"WARN", "BAD"}}
MCCrons == 1 .. 2
=============================================================================
