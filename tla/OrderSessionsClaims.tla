------------------------ MODULE OrderSessionsClaims ------------------------
(***************************************************************************)
(* What the documents say of an order, and two sessions at once (or one    *)
(* that stops half way) do not keep.                                       *)
(***************************************************************************)
EXTENDS OrderSessions

\* "Terminais: DELIVERED, CANCELED, AUTHORIZATION_DENIED": a final order
\* stays as it is (docs/business-rules.md).
FinalIsFinal == [][row.status \in Final => row'.status = row.status]_vars

\* "ja existe saga em andamento para esta ordem de servico": the orchestrator
\* refuses a second saga, so MS3 never has two of one order to carry out.
OneSagaAtATime == Cardinality(requests \ {r.saga : r \in replies}) <= 1

\* "Registrar historico de transicoes de status": with no session running, a
\* final status the history reports is the order's.
HistoryTellsTheEnd ==
  (\A s \in Sessions : At(s, "idle")) =>
    \A e \in history : e.new \in Final => row.status = e.new

\* "Eventos duplicados ou fora de ordem sao descartados": once a saga is no
\* longer the row's, it never is again.
LeftForGood ==
  [][row'.sagaId = row.sagaId \/ row'.sagaId = NoId
       \/ \E s \in Sessions : At(s, "launch") /\ session[s].saga = row'.sagaId]_vars
=============================================================================
