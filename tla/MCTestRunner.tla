---------------------------- MODULE MCTestRunner ----------------------------
(* Three tests in two directories: two share a directory, one a name. *)
EXTENDS TestRunner

MCPath == << <<"array", "sum">>, <<"array", "swap">>, <<"functions", "sum">> >>

\* The files of one test may resist: its rmtree removes everything, all but the
\* assembly, or nothing.
MCLeavings == << {{}}, {{}, {"dir", "s"}, Kinds}, {{}} >>

=============================================================================
