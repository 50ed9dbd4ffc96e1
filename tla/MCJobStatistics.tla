-------------------------- MODULE MCJobStatistics --------------------------
(* The two jobs that the page knows.                                       *)
EXTENDS JobStatistics

TwoJobs == <<"sparkCF", "sdgCF">>
=============================================================================
