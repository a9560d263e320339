---------------------------- MODULE MCPostPivot ----------------------------
(***************************************************************************)
(* PostPivot for model checking: the inputs, and the claims of its         *)
(* comments that do not hold.                                              *)
(***************************************************************************)
EXTENDS PostPivot

Nets(stack, of) == [i \in DOMAIN stack |-> [fam |-> stack[i], of |-> of]]

Seed(stack, nets) == [nodeIPs |-> stack, nodeIP |-> NoFamily, machineNetworks |-> nets,
                      hasProxy |-> FALSE]

Conf(stack, nets) ==
    [nodeIPs |-> stack, nodeIP |-> NoFamily, machineNetworks |-> nets, machineNetwork |-> NoNetwork,
     proxy |-> FALSE, hostname |-> "given", osHostname |-> "given", version |-> TRUE]

\* An input of an upgrade or of an installation.
Input(flow, auto, seed, conf) ==
    [flow |-> flow, autoRollback |-> auto, seed |-> seed, conf |-> conf]

\* A node with one address: the inputs about faults.
OneSeed == Seed(<<"v4">>, Nets(<<"v4">>, "seed"))
OneConf == Conf(<<"v4">>, Nets(<<"v4">>, "site"))
Plain == {Input("IBU", TRUE, OneSeed, OneConf), Input("IBI", FALSE, OneSeed, OneConf)}

\* The addresses of a dual-stack seed in another order, and what the other
\* checks refuse; the single fields of an older file, of either family.
Mixed ==
    {Input("IBI", FALSE, Seed(<<"v4", "v6">>, Nets(<<"v4", "v6">>, "seed")), Conf(st, Nets(st, "site"))) :
        st \in {<<"v6", "v4">>, <<"v6">>}}
    \cup {Input("IBU", FALSE, OneSeed,
                [Conf(<<>>, <<>>) EXCEPT !.nodeIP = f, !.machineNetwork = Nets(<<f>>, "site")[1]]) :
             f \in Families}
    \cup {Input("IBU", FALSE, OneSeed, c) :
             c \in {[OneConf EXCEPT !.hostname = "localhost"], [OneConf EXCEPT !.proxy = TRUE]}}

Both == Plain \cup Mixed
-----------------------------------------------------------------------------
\* setupConfigurationFolder copies everything: post-pivot never works with a
\* part of what the block device holds.
CopiesEverything == pc = "ssh" /\ "service" \in files => Staged \subseteq files

\* The summary file means recert previously failed.
SummaryMeansFailed ==
    pc = "recert" /\ ~ran /\ Marker(pc) \notin files /\ "summary" \in files
        => "crypto" \notin files

\* The deprecated machine network is honoured for backward compatibility: recert
\* is told every machine network that differs from the seed's.
RecertToldNetworks ==
    pc = "postRecert" =>
        LET nets == getMachineNetworksFromSeedReconfig(input.conf) IN
        nets # input.seed.machineNetworks =>
            RecertConfig(input.seed, input.conf, ips).networks = nets
=============================================================================
