------------------------------ MODULE WebUnlock ------------------------------
(***************************************************************************)
(* The web page over paid delivery: App.tsx shows the preview of a Review  *)
(* it had assessed and unlocks the full one with payment.ts, which signs a *)
(* new authorization on every attempt and keeps none.  The page knows only *)
(* the answer to its request: the reply may be lost, the wallet may refuse *)
(* and the page may be reloaded while the server and Celo go on.           *)
(*                                                                         *)
(* External, modelled from how payment.ts uses them: the wallet, and the   *)
(* x402 client, which asks once without payment, signs the requirement     *)
(* with a fresh nonce, and sends the request again.                        *)
(***************************************************************************)
EXTENDS X402Delivery

VARIABLES
    phase,      \* Phase of App.tsx
    preview,    \* the paid path of the Review on the page
    asked,      \* the paid request whose answer the page awaits
    signed,     \* authorizations the wallet has signed
    reviewed    \* paths of the Reviews created so far

ASSUME NoneIsNotOnThePage == None \notin Resource \cup Req

page == <<phase, preview, asked>>
webVars == <<vars, page, signed, reviewed>>

Phase == {"IDLE", "ANALYZING", "PREVIEW", "ERROR", "UNLOCKING", "UNLOCKED"}

PageTypeOK ==
    /\ phase \in Phase
    /\ preview \in Resource \cup {None}
    /\ asked \in Req \cup {None}
    /\ signed \subseteq Auth
    /\ reviewed \subseteq Resource
    /\ preview # None <=> phase \in {"PREVIEW", "UNLOCKING", "UNLOCKED"}
    /\ asked # None => phase = "UNLOCKING"

WebInit ==
    /\ Init
    /\ phase = "IDLE" /\ preview = None /\ asked = None
    /\ signed = {} /\ reviewed = {}

-----------------------------------------------------------------------------
(* The assessment. *)

\* The form is on the page only while it is idle or shows an error.
Submit ==
    /\ phase \in {"IDLE", "ERROR"}
    /\ phase' = "ANALYZING"
    /\ preview' = None
    /\ UNCHANGED <<vars, asked, signed, reviewed>>

\* Every assessment makes a Review of its own.
Reviewed ==
    /\ phase = "ANALYZING"
    /\ \E r \in Resource \ reviewed :
        /\ reviewed' = reviewed \cup {r}
        /\ \/ phase' = "PREVIEW" /\ preview' = r
           \/ phase' = "ERROR" /\ UNCHANGED preview
    /\ UNCHANGED <<vars, asked, signed>>

NotReviewed ==
    /\ phase = "ANALYZING"
    /\ phase' = "ERROR"
    /\ UNCHANGED <<vars, preview, asked, signed, reviewed>>

-----------------------------------------------------------------------------
(* unlock and unlockReview. *)

Unlock ==
    /\ phase = "PREVIEW"
    /\ phase' = "UNLOCKING"
    /\ UNCHANGED <<vars, preview, asked, signed, reviewed>>

\* No wallet, another chain, or the user declines to sign.
WalletRefuses ==
    /\ phase = "UNLOCKING"
    /\ asked = None
    /\ phase' = "PREVIEW"
    /\ UNCHANGED <<vars, preview, asked, signed, reviewed>>

\* A new x402 client signs with a fresh nonce; its request reaches the server.
Pay ==
    /\ phase = "UNLOCKING"
    /\ asked = None
    /\ \E q \in Req, a \in Auth \ signed :
        /\ Arrive(q)
        /\ request'[q].auth = a
        /\ request'[q].resource = preview
        /\ asked' = q
        /\ signed' = signed \cup {a}
    /\ UNCHANGED <<phase, preview, reviewed>>

\* Mutant: the status of the response is not looked at.
AnswersAsDelivered ==
    /\ asked # None
    /\ pc[asked] \in Ended
    /\ phase' = IF pc[asked] = "dropped" THEN "PREVIEW" ELSE "UNLOCKED"
    /\ asked' = None
    /\ UNCHANGED <<vars, preview, signed, reviewed>>

\* Mutant: only a delivery ends the wait.
AnswersOnDelivery ==
    /\ asked # None
    /\ pc[asked] = "delivered"
    /\ phase' = "UNLOCKED"
    /\ asked' = None
    /\ UNCHANGED <<vars, preview, signed, reviewed>>

\* Only a 200 unlocks; every other end leaves the preview, to be tried again.
Answers ==
    /\ asked # None
    /\ pc[asked] \in Ended
    /\ phase' = IF pc[asked] = "delivered" THEN "UNLOCKED" ELSE "PREVIEW"
    /\ asked' = None
    /\ UNCHANGED <<vars, preview, signed, reviewed>>

\* Mutant: the request given up is still awaited.
ReplyLostAwaited ==
    /\ asked # None
    /\ phase' = "PREVIEW"
    /\ UNCHANGED <<vars, preview, asked, signed, reviewed>>

\* The connection breaks, and the server goes on with the request.
ReplyLost ==
    /\ asked # None
    /\ phase' = "PREVIEW"
    /\ asked' = None
    /\ UNCHANGED <<vars, preview, signed, reviewed>>

\* Nothing of the page is stored in the browser.
Reload ==
    /\ phase # "IDLE"
    /\ phase' = "IDLE" /\ preview' = None /\ asked' = None
    /\ UNCHANGED <<vars, signed, reviewed>>

Server ==
    /\ \/ \E q \in Req : Hook(q) \/ Facilitator(q)
       \/ Restart
       \/ Block
       \/ Tick
    /\ UNCHANGED <<page, signed, reviewed>>

WebNext ==
    \/ Submit \/ Reviewed \/ NotReviewed
    \/ Unlock \/ WalletRefuses \/ Pay \/ Answers \/ ReplyLost \/ Reload
    \/ Server

WebSpec == WebInit /\ [][WebNext]_webVars

\* The server's requests end as in X402Delivery, and their answers arrive.  No
\* fairness of the user or of the wallet.
WebFairSpec ==
    /\ WebSpec
    /\ \A q \in Req : WF_webVars(Hook(q) /\ UNCHANGED <<page, signed, reviewed>>)
    /\ WF_webVars(Answers)

-----------------------------------------------------------------------------
(* Properties. *)

\* A page that shows the full Review has paid for this one: a settlement of its
\* path was admitted on an authorization that the wallet signed for the page.
UnlockedIsPaid ==
    phase = "UNLOCKED" =>
        \E s \in settlements : s.intent.resource = preview /\ s.auth \in signed

\* No wait without an end: once the paid request is out, the page is answered or
\* gives up, whatever becomes of the payment.
UnlockEnds == asked # None ~> asked = None

=============================================================================
