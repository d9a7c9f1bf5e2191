---------------------------- MODULE MCWalletScenes ----------------------------
(***************************************************************************)
(* The calls of all services at once are too many states: a behaviour of   *)
(* StagedSpec plays one of three scenes: two charges and a reader of u1's  *)
(* balance beside a redeemed code and an adjustment, one charge and a      *)
(* reader beside an adjustment and a negative top-up, or every kind of     *)
(* credit beside an adjustment.                                            *)
(***************************************************************************)
EXTENDS MCWallet

VARIABLE scene  \* the calls that are made

Scenes == {{r1, r2, a1, b1, k1}, {r1, a1, t2, b1},
           {a2, t1, k1, k2, d1, g1, i1, p1, w1}}

StagedInit == Init /\ scene \in Scenes

OthersRest ==
  /\ \A r \in Requests \ scene : charging'[r] = charging[r]
  /\ \A a \in Adjustments \ scene : adjust'[a] = adjust[a]
  /\ toppedUp' \subseteq toppedUp \cup scene
  /\ \A b \in Readers \ scene : reader'[b] = reader[b]
  /\ \A k \in Redemptions \ scene : redeem'[k] = redeem[k]
  /\ \A d \in Disablings \ scene : disable'[d] = disable[d]
  /\ \A x \in Calls \ scene : affiliatePc'[x] = affiliatePc[x]

OnStage(A) == A /\ OthersRest /\ UNCHANGED scene

(* A goroutine that was started is scheduled until it returns. *)
StagedSpec ==
  /\ StagedInit
  /\ [][OnStage(Next)]_<<vars, scene>>
  /\ \A r \in Requests :
       WF_<<vars, scene>>(r \in scene /\ RecordUsage(r)
                          /\ UNCHANGED <<codeVars, affiliateVars, scene>>)
===============================================================================
