-------------------------- MODULE MCSessionWorker ---------------------------
(* Small workloads for TLC. *)
EXTENDS SessionWorker

Churn(tape)     == <<"churn", IF tape = <<>> THEN <<>> ELSE <<Op("io", tape)>>>>
Gc(tape)        == <<"churn", <<Op("raw", tape)>>>>
Command(script) == <<"command", script>>
PrepOn          == <<"prepOn", <<>>>>
PrepOff         == <<"prepOff", <<>>>>
Garbled         == <<"garbled", <<>>>>

IO(ns)  == Op("io", <<ns>>)
Raw(ns) == Op("raw", <<ns>>)

\* Workloads that are metered throughout: long steps, which fill the tape before
\* the queue, and short ones with source that does not compile, which fill the
\* queue before the tape.
TapePlans ==
  {PlanOf(<<Churn(<<3, 2>>), Churn(<<>>), Gc(<<4>>), Churn(<<1>>)>>),
   PlanOf(<<Churn(<<5>>), Command(<<IO(2), Raw(2)>>), Churn(<<1>>)>>),
   PlanOf(<<Command(<<IO(3), Op("throw", <<>>)>>), Command(<<>>), Churn(<<2, 1>>)>>),
   PlanOf(<<Churn(<<1>>), Garbled, Churn(<<1, 1>>), Garbled, Command(<<IO(1)>>)>>)}

\* The page's boot sequence and some churn.
BootPlans ==
  {PlanOf(<<PrepOn, Command(<<>>), Command(<<Op("format", <<3, 3>>), IO(1)>>), PrepOff,
            Gc(<<2>>), Churn(<<1>>)>>)}

\* Console lines that open or close the bracket, or format, on a backlog.
ConsolePlans ==
  {PlanOf(<<Churn(<<3>>), Command(<<Op("prepOn", <<>>)>>), Churn(<<1>>)>>),
   PlanOf(<<Churn(<<2>>), Command(<<IO(1), Op("prepOn", <<>>), Raw(1), Op("prepOff", <<>>)>>)>>),
   PlanOf(<<Churn(<<3>>), Command(<<Op("format", <<1>>)>>), Churn(<<1>>)>>)}

PrepPlans == BootPlans \cup ConsolePlans
=============================================================================
