---------------------------- MODULE MCExperiment ----------------------------
\* Three workers on three hosts; two lines for one host.  An earlier job of
\* the same name ran on one of them and on another host.
EXTENDS Experiment

MCPastHosts == {"h1", "h4"}
MCWorkerLists == {<<"h1", "h2", "h3">>, <<"h1", "h1">>}
=============================================================================
