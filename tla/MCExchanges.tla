----------------------------- MODULE MCExchanges -----------------------------
(***************************************************************************)
(* The exchanges between stations: QSY, the discovery dwell, the           *)
(* rendezvous, the handshake, the HPX session alone, the mesh, files, and  *)
(* B2F mail; and the PKI service with its clients.  A behaviour is one     *)
(* exchange's: `part' says whose, and the others rest.                     *)
(* For QSY two stations' candidate lists share a frequency and one of b's  *)
(* is outside the data segment; a proposes a rendezvous to b, whose        *)
(* channel list may be empty; a and b may dial each other, or a and c may  *)
(* both dial b; the mesh is a line a - b - c.  Mail comes in batches at    *)
(* and beyond the caps, of both compression types.  Three PKI requests     *)
(* promote bundles, share a request id, promote a bundle that is being     *)
(* published, or moderate a submission.                                    *)
(***************************************************************************)
EXTENDS Qsy, Discovery, Rendezvous, Handshake, HpxSession, Mesh, FileTransfer, B2f, Pki, TLC

CONSTANTS a, b, c

MCStations == {a, b}
MCCandidates == (a :> <<"f", "g">>) @@ (b :> <<"g", "x">>)
MCTables == {(a :> <<0, 1>>) @@ (b :> t) : t \in {<<0>>, <<>>}}
MCContacts == {{<<a, b>>, <<b, a>>}, {<<a, b>>, <<c, b>>}}

InLine == {<<a, b>>, <<b, a>>, <<b, c>>, <<c, b>>}
MCHopLimit == [n \in Nodes |-> IF n = c THEN 1 ELSE 2]
MCDenied == [n \in Nodes |-> IF n = a THEN {c} ELSE {}]
MCPlans ==
  {{<<"beacon", a, None>>, <<"send", a, b>>},
   {<<"discover", b, c>>, <<"discover", a, c>>, <<"send", a, c>>},
   {<<"discover", b, c>>, <<"update", b, c>>, <<"reject", c, c>>, <<"send", a, c>>},
   {<<"broadcast", b, None>>, <<"beacon", c, None>>}}

Mail(mid, type, size) == [mid |-> mid, type |-> type, size |-> size]
MCBatches ==
  LET d == [i \in 1 .. 4 |-> Mail(i, "D", 1)]
      big == Mail(5, "D", 2)
      lzhuf == Mail(6, "C", 1)
  IN  {SubSeq(d, 1, n) : n \in 0 .. 4}
        \cup {<<big, d[1]>>, <<lzhuf>>, <<lzhuf, d[1]>>, <<d[1], lzhuf>>}

Ask(op, id, arg) == [op |-> op, id |-> id, arg |-> arg]
Three(x, y, z) == ("r1" :> x) @@ ("r2" :> y) @@ ("r3" :> z)
MCLoads ==
  {Three(Ask("promote", None, "old"), Ask("promote", None, "new"), Ask("promote", "x", "new")),
   Three(Ask("revoke", "x", None), Ask("revoke", "x", None), Ask("publish", "x", None)),
   Three(Ask("publish", None, None), Ask("promote", "x", "r1"), Ask("promote", "y", "r1")),
   Three(Ask("submit", None, None), Ask("moderate", None, "r1"), Ask("moderate", None, "r1")),
   Three(Ask("audit", None, None), Ask("submit", None, None), Ask("moderate", None, "r2"))}

VARIABLE part

ExchangeInit ==
  /\ part \in {"qsy", "discovery", "rendezvous", "handshake", "hpx", "mesh",
              "file", "mail", "pki"}
  /\ QsyInit /\ DiscInit /\ RdvInit /\ HsInit /\ HpxInit /\ MeshInit
  /\ FxInit /\ B2fInit /\ PkiInit
  /\ part # "qsy" => ~rig_fails
  /\ part # "discovery" => cat_faults = {} /\ ~enabled /\ dial = CHOOSE f \in OperatorFreqs : TRUE
  /\ part # "rendezvous" => rt[b].channels = <<>>
  /\ part # "handshake" => <<b, a>> \in contacts
  /\ part # "mesh" => <<"broadcast", b, None>> \in todo
  /\ part # "mail" => via = "tnc" /\ batch = <<>>
  /\ part # "pki" => load["r1"].op = "audit" /\ current = {}

radioVars == <<qsyVars, discVars, rdvVars, hsVars, hpxVars, meshVars>>
otherVars == <<fxVars, b2fVars, pkiVars, part>>

(* Contents are interchangeable: the first transfer may be taken to offer  *)
(* a given one.                                                            *)
FirstFile ==
  \A s \in Stations : tx[s] # None /\ tx[s].id = 1 => tx[s].file = CHOOSE f \in Files : TRUE

ExchangeNext ==
  \/ /\ part = "qsy" /\ QsyNext
     /\ UNCHANGED <<discVars, rdvVars, hsVars, hpxVars, meshVars, otherVars>>
  \/ /\ part = "discovery" /\ DiscNext
     /\ UNCHANGED <<qsyVars, rdvVars, hsVars, hpxVars, meshVars, otherVars>>
  \/ /\ part = "rendezvous" /\ RdvNext
     /\ UNCHANGED <<qsyVars, discVars, hsVars, hpxVars, meshVars, otherVars>>
  \/ /\ part = "handshake" /\ HsNext
     /\ UNCHANGED <<qsyVars, discVars, rdvVars, hpxVars, meshVars, otherVars>>
  \/ /\ part = "hpx" /\ HpxNext
     /\ UNCHANGED <<qsyVars, discVars, rdvVars, hsVars, meshVars, otherVars>>
  \/ /\ part = "mesh" /\ MeshNext
     /\ UNCHANGED <<qsyVars, discVars, rdvVars, hsVars, hpxVars, otherVars>>
  \/ part = "file" /\ FxNext /\ FirstFile' /\ UNCHANGED <<radioVars, b2fVars, pkiVars, part>>
  \/ part = "mail" /\ B2fNext /\ UNCHANGED <<radioVars, fxVars, pkiVars, part>>
  \/ part = "pki" /\ PkiNext /\ UNCHANGED <<radioVars, fxVars, b2fVars, part>>

exchangeVars == <<radioVars, otherVars>>

(* Each exchange's own fairness: receive ticks run, time passes, handlers  *)
(* go on, and PostgreSQL and its pool end waits that cannot end.           *)
ExchangeFairness ==
  /\ \A s \in Stations :
       /\ WF_qsyVars(part = "qsy" /\ Receive(s))
       /\ WF_qsyVars(part = "qsy" /\ Expire(s))
       /\ WF_qsyVars(part = "qsy" /\ Clock(s))
       /\ WF_rdvVars(part = "rendezvous" /\ StartDwell(s))
  /\ WF_discVars(part = "discovery" /\ DiscoveryTick /\ UNCHANGED cat_faults)
  /\ WF_discVars(part = "discovery" /\ Slot /\ UNCHANGED cat_faults)
  /\ WF_rdvVars(part = "rendezvous" /\ SlotBoundary)
  /\ WF_hsVars(part = "handshake" /\ HsClock /\ UNCHANGED contacts)
  /\ \A s \in Daemons :
       /\ WF_hsVars(part = "handshake" /\ ReceiveTick(s) /\ UNCHANGED contacts)
       /\ WF_hsVars(part = "handshake" /\ QuietTick(s) /\ UNCHANGED contacts)
  /\ \A n \in Nodes : WF_meshVars(part = "mesh" /\ Step(n))
  /\ WF_fxVars(part = "file" /\ Tick)
  /\ \A s \in Stations : WF_fxVars(part = "file" /\ PollTimeouts(s))
  /\ WF_b2fVars(part = "mail" /\ IssReads) /\ WF_b2fVars(part = "mail" /\ IrsReads)
  /\ WF_b2fVars(part = "mail" /\ IssTimeout) /\ WF_b2fVars(part = "mail" /\ IrsTimeout)
  /\ \A r \in Requests :
       /\ WF_pkiVars(part = "pki" /\ HandlerStep(r))
       /\ WF_pkiVars(part = "pki" /\ AcquireTimesOut(r))
       /\ WF_pkiVars(part = "pki" /\ DeadlockDetected(r))

ExchangeSpec == ExchangeInit /\ [][ExchangeNext]_exchangeVars /\ ExchangeFairness

-----------------------------------------------------------------------------
(* The exchange keeps its type, and every counter, queue and table the     *)
(* bound the code gives it.                                                *)
ExchangeTypeOK ==
  /\ part = "qsy" => QsyTypeOK
  /\ part = "discovery" => DiscTypeOK
  /\ part = "rendezvous" => RdvTypeOK
  /\ part = "handshake" => HsTypeOK
  /\ part = "hpx" => HpxTypeOK
  /\ part = "mesh" => MeshTypeOK
  /\ part = "file" => FxTypeOK
  /\ part = "mail" => B2fTypeOK
  /\ part = "pki" => PkiTypeOK

(* Whatever is lost or left unanswered, nobody waits for ever: a station's *)
(* QSY session, its dwell, its rendezvous proposal, its pending handshake, *)
(* its file transfers and its mail session each end, and so does every     *)
(* request to the PKI service, also when its pool is exhausted or          *)
(* promotions wait for each other's rows: none of them blocks the next.    *)
ExchangesEnd ==
  /\ SessionsEnd /\ DwellEnds /\ ProposalEnds /\ PendingEnds /\ SlotsFreeAgain
  /\ []<>(part = "mail" => MailOver) /\ []<>(part = "pki" => RequestsOver)
=============================================================================
