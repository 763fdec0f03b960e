----------------------------- MODULE MCAwgParts -----------------------------
(***************************************************************************)
(* Small instances of parts that share no state, side by side: a behaviour *)
(* is one of the part in focus, and the others rest.                       *)
(***************************************************************************)
EXTENDS AwgPower, AwgHttpProbe, AwgConfig, AwgObf, AwgHello, AwgNoise, LwipPbuf

VARIABLE focus

Parts == {"power", "probe", "config", "obf", "hello", "noise", "pbuf"}

partsVars == <<focus, powerVars, probeVars, configVars, input, sniffed, noiseVars, pbufVars>>

NoInput == [what |-> "none"]

\* Without the service awg_power_transition does nothing.
PartsInit ==
  /\ focus \in Parts /\ PowerInit /\ ProbeInit /\ ConfigInit /\ NoiseInit /\ PbufInit
  /\ focus # "power" => log = <<>> /\ ~ g_ok
  /\ focus # "probe" => ~ due
  /\ focus # "noise" => header_protection /\ peer_psk = "psk"
  /\ IF focus = "obf" THEN ObfInit ELSE input = NoInput
  /\ IF focus = "hello" THEN HelloInit ELSE sniffed = NoInput

PowerSteps  == focus = "power" /\ PowerNext
               /\ UNCHANGED <<focus, probeVars, configVars, input, sniffed, noiseVars, pbufVars>>
ProbeSteps  == focus = "probe" /\ ProbeNext
               /\ UNCHANGED <<focus, powerVars, configVars, input, sniffed, noiseVars, pbufVars>>
ConfigSteps == focus = "config" /\ ConfigNext
               /\ UNCHANGED <<focus, powerVars, probeVars, input, sniffed, noiseVars, pbufVars>>
NoiseSteps  == focus = "noise" /\ NoiseNext
               /\ UNCHANGED <<focus, powerVars, probeVars, configVars, input, sniffed, pbufVars>>
PbufSteps   == focus = "pbuf" /\ PbufNext
               /\ UNCHANGED <<focus, powerVars, probeVars, configVars, input, sniffed, noiseVars>>

PartsNext == PowerSteps \/ ProbeSteps \/ ConfigSteps \/ NoiseSteps \/ PbufSteps

\* The fairness of PowerFairSpec and PbufFairSpec, of the part in focus.
PartsFairSpec ==
  /\ PartsInit /\ [][PartsNext]_partsVars
  /\ PowerFairness
  /\ []<>(~ pbuf_free_ooseq_pending)

-----------------------------------------------------------------------------
\* What is read from a file or from a client is read as it was meant: keys, templates and
\* addresses, the name in a hello however it is cut, and whether the name is denied, as far
\* as a C string goes.
ConversionsAgree == ConfigTextAgrees /\ HelloIsRead

\* Each part gets on: what is written to the log is looked at, and segments that came out of
\* order do not keep the pool of pbufs empty.
PartsGetOn == LookedAt /\ OutOfOrderYields

-----------------------------------------------------------------------------
\* A console without a past, and two whose past ends in a transition.
MCPasts == {<<>>, <<"power">>, <<"other", "power">>}

MCKeys == UNION {[1..n -> {0, 107, 255}] : n \in 0..4}

Tag(kind, len, data) == [kind |-> kind, len |-> len, data |-> data]

MCTags == {Tag("b", 0, <<7, 8>>), Tag("t", 0, <<>>), Tag("d", 0, <<>>), Tag("ds", 0, <<>>),
           Tag("dz", 1, <<>>), Tag("dz", 2, <<>>), Tag("rc", 3, <<>>)}

\* Every template of up to three tags, and payloads whose length needs two bytes.
MCRenderings ==
  ((UNION {[1..n -> MCTags] : n \in 1..3}) \X {<<>>, <<255>>, <<1, 2>>, <<1, 2, 3, 4, 5>>})
  \cup {<<<<Tag("dz", 2, <<>>), t, Tag("dz", 3, <<>>)>>, [k \in 1..258 |-> k % 256]>> :
          t \in {u \in MCTags : u.kind # "ds"}}

MCFields == {<<>>, <<0>>, <<2, 5>>, <<2, 5, 5>>, <<2, 5, 6>>, <<0, 0, 0, 1>>, <<1, 11>>}

\* Two, four and five fields.
MCAddresses ==
  {a \o <<Dot>> \o b : a, b \in MCFields}
  \cup {a \o <<Dot>> \o b \o <<Dot>> \o c \o <<Dot>> \o d : a, b, c, d \in MCFields}
  \cup {a \o <<Dot, 1, Dot, 2, Dot>> \o b \o <<Dot>> \o c : a, b, c \in MCFields}

\* "a.b" and "c".
MCDeny == {<<97, 46, 98>>, <<99>>}

\* Letters, one of them in two cases, a dot, a space and a NUL.
MCHosts == UNION {[1..n -> {97, 98, 66, 99, 46, 32, 0}] : n \in 0..5}

Ext(type, data) == [type |-> type, data |-> data]
NameExt(name) == Ext(0, <<0, Len(name) + 3, 0, 0, Len(name)>> \o name)

\* Among them one whose bytes look like a name, and one whose length needs two bytes.
MCExts == {NameExt(<<97>>), NameExt(<<97, 46, 98>>), NameExt(<<97, 0, 98>>),
           NameExt(<<97, 98, 99, 46, 97, 98>>),
           Ext(16, <<>>), Ext(16, NameExt(<<98>>).data), Ext(43, [k \in 1..258 |-> 0])}

MCHellos ==
  [session : {<<>>, <<1, 2, 3>>}, ciphers : {<<19, 1>>}, compression : {<<0>>},
   exts : UNION {[1..n -> MCExts] : n \in 0..2}]

MCArriving == {SubSeq(<<"a", "b", "c", "d", "e">>, 1, n) : n \in {3, 5}}
MCWritten  == {<<"x", "y">>}
MCHeaders  == <<"I", "T">>
=============================================================================
