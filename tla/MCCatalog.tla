------------------------------ MODULE MCCatalog ------------------------------
(* Three specifications of what lies in the Iceberg catalog, in one run: the *)
(* bootstrap of the catalog, the columns of gold and the files of a table.   *)
(* They share no variable and every property is about one of them, so a      *)
(* behaviour is of one of the three, and the other two stay as they began.   *)
EXTENDS IcebergTable, GoldTable, Bootstrap

VARIABLE part    \* "table", "gold" or "boot"

Tables(A) == part = "table" /\ A /\ UNCHANGED <<goldVars, bootVars, part>>
Golds(A) == part = "gold" /\ A /\ UNCHANGED <<vars, bootVars, part>>
Boots(A) == part = "boot" /\ A /\ UNCHANGED <<vars, goldVars, part>>

MCInit ==
  /\ Init /\ GoldInit /\ BootInit
  /\ part \in {"table", "gold", "boot"}
  /\ part # "gold" => columns = NoTable
  /\ part # "boot" => terms = "open"

MCNext == Tables(Next) \/ Golds(GoldNext) \/ Boots(BootNext)

(* Operators run a script again until it succeeds; systemd starts the job. *)
MCSpec ==
  /\ MCInit /\ [][MCNext]_<<vars, goldVars, bootVars, part>>
  /\ WF_goldVars(Golds(SubmitJob))
  /\ \A m \in Migrations :
       /\ WF_goldVars(Golds(MigrationStep(m)))
       /\ WF_goldVars(Golds(migration[m].pc = "failed" /\ MigrateAgain(m)))
  /\ \A s \in Scripts :
       /\ WF_bootVars(Boots(main(s)))
       /\ WF_bootVars(Boots(script[s] = "failed" /\ RunAgain(s)))
=============================================================================
