----------------------------- MODULE JobLifeMC -----------------------------
(* Scripts of main() for the runs of JobLife. *)
EXTENDS JobLife

\* A parent with its leaves, as in examples/avjobs.c.
FamilyScript == <<Create("parent"), Indicator(1), Launch(1)>>

\* Independent jobs, as in examples/aparalleljob.c, after a job that main()
\* destroys without having set it ready and whose slot they may get.
CrowdScript ==
  <<Create("leaf"), Destroy(1), Create("leaf"), Launch(2),
    Create("leaf"), Launch(3)>>

\* A family, and a job that finds its slot among the ones it leaves behind: it
\* breaks AccessCountsHolders, see the README.
FamilyThenLeafScript == FamilyScript \o <<Create("leaf"), Launch(2)>>

Family         == {FamilyScript}
FamilyThenLeaf == {FamilyThenLeafScript}
FamilyOrCrowd  == {FamilyScript, CrowdScript}

\* The programs of the run job_life are among those the theorems are about.
ASSUME ProgramAssumption ==
  MainScripts = FamilyOrCrowd /\ RequireFirst /\ Required = Leaves => Families
=============================================================================
