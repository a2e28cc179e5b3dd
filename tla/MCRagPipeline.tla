--------------------------- MODULE MCRagPipeline ---------------------------
(* Three chunks, a few words of vocabulary, and the questions and claims   *)
(* that tell every rule of the verifier from the others.                   *)
EXTENDS RagPipeline

MCNumberValue   == [five |-> 5, nine |-> 9, y2024 |-> 2024]
MCUnitModifiers == {"business"}
MCStopwords     == {"in"}
MCNegations     == {"not"}
MCMonthOf       == [march |-> 3, april |-> 4]
MCYearOf        == [y2024 |-> 2024]
MCIsoDates      == {}
MCFeaturesOf    ==
    [w \in {"five", "nine", "business", "in", "not", "march", "april", "y2024", "take", "days",
            "ship", "acme"} |-> {w}]
    @@ [refunds |-> {"refunds", "#re"}, refund |-> {"refund", "#re"}]

T(w) == [w |-> w, cap |-> FALSE]
N(w) == [w |-> w, cap |-> TRUE]

FiveDays == <<T("refunds"), T("take"), T("five"), T("business"), T("days")>>
NineDays == <<T("refunds"), T("take"), T("nine"), T("days")>>
NotInMarch == <<T("refunds"), T("not"), T("ship"), T("in"), N("march"), T("y2024")>>

NotFive == <<T("refunds"), T("not"), T("five"), T("days")>>

ShipInApril == <<T("refunds"), T("ship"), T("in"), N("april")>>

MCText == <<  <<FiveDays, NineDays>>, <<NotInMarch>>, <<NotFive, ShipInApril>>  >>
MCNoOcr == -1
Digital   == [engine |-> FALSE, conf |-> MCNoOcr]
Scan(c)   == [engine |-> TRUE, conf |-> c]
MCOcrCases ==
    { <<Digital, Scan(MCNoOcr), Digital>>,
      <<Scan(4 * (Unit \div 10)), Digital, Digital>>,
      <<Scan(Unit), Scan(0), Digital>> }

MCQueries ==
    { <<T("refund"), T("days")>>,
      <<T("refunds"), T("take"), T("nine")>>,
      <<T("refunds"), T("ship")>> }
MCRawScores == {0, Unit}

MCProposals ==
    { Proposal(1, FiveDays, FiveDays, TRUE),
      Proposal(1, FiveDays, FiveDays, FALSE),
      Proposal(1, <<T("refunds"), T("take"), T("days"), T("nine")>>, FiveDays, TRUE),
      Proposal(1, <<T("acme")>> \o FiveDays, FiveDays, TRUE),
      Proposal(2, NotInMarch, NotInMarch, TRUE),
      Proposal(2, <<T("refunds"), T("ship"), T("in"), N("march"), T("y2024")>>, NotInMarch, TRUE),
      Proposal(4, FiveDays, FiveDays, TRUE) }
=============================================================================
