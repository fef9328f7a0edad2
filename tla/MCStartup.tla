------------------------------ MODULE MCStartup ------------------------------
(* Startup on a small instance. *)
EXTENDS Startup

Old(v, sound) == [version |-> v, sound |-> sound, wal |-> FALSE]

Whole == Dir("ok", NewDb)

\* No project, a whole one, one that needs migrating, a marker without database,
\* a database without marker, an empty directory, and databases the open refuses.
TargetLayouts ==
  {NoDir, Whole, Dir("ok", Old(1, TRUE)), Dir("ok", NoDb),
   Dir("absent", Old(1, TRUE)), Dir("absent", NoDb), Dir("ok", Old(1, FALSE)),
   Dir("ok", Old(Latest, FALSE)), Dir("ok", Old(Latest + 1, TRUE))}

\* The parent directory matters only to a Discover that finds nothing below it.
AllLayouts == {<<l, NoDir>> : l \in TargetLayouts} \cup {<<NoDir, Whole>>}

=============================================================================
