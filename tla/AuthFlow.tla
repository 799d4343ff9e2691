------------------------------ MODULE AuthFlow ------------------------------
(***************************************************************************)
(* perform_auth (crates/auth/src/flow.rs) and the providers it drives: a   *)
(* loop of at most Rounds rounds that logs the user in, refreshes tokens   *)
(* and asks who they belong to.  A flow is a record; the operators below   *)
(* give the flows one answer of a server or of the user can lead to, or    *)
(* the error that ends it.                                                 *)
(*                                                                         *)
(* A token is the user it was issued to: what is in it, when it expires    *)
(* and whether a server still takes it are left to the server's answers.   *)
(***************************************************************************)
EXTENDS Naturals

CONSTANTS Name,     \* users of the providers
          NoToken,  \* an absent token, an absent name
          Rounds    \* the bound of the loop: 10 in the code

ASSUME FlowAssumption == NoToken \notin Name /\ Rounds \in Nat

ProviderKind == {"microsoft", "telegram", "elyby", "offline"}

Token  == Name \cup {NoToken}
Tokens == [access : Token, refresh : Token]
NoTokens == [access |-> NoToken, refresh |-> NoToken]

\* `held` is auth_result_data; `next` the tokens UserInfo(data) carries.
Flow == [pc : {"Auth", "Waiting", "Refresh", "UserInfo", "Success"},
         held : Tokens, next : Tokens, user : Token, round : 0 .. Rounds]

Begun(tokens) ==
    [pc |-> IF tokens = NoTokens THEN "Auth" ELSE "UserInfo",
     held |-> tokens, next |-> tokens, user |-> NoToken, round |-> 0]

\* The rounds still to go are checked before each of them.
LoopEnds(flow) == flow.pc # "Waiting" /\ flow.round = Rounds

To(flow, pc)    == [flow EXCEPT !.pc = pc, !.round = @ + 1]
ToUserInfo(flow, tokens) == [flow EXCEPT !.pc = "UserInfo", !.next = tokens]

\* What a log-in as n gives: only Microsoft issues refresh tokens.
LogIn(kind, n) == [access |-> n, refresh |-> IF kind = "microsoft" THEN n ELSE NoToken]

(***************************************************************************)
(* The errors.  "network" are those is_network_error takes for one: a user *)
(* who does not answer in time (Microsoft, Ely.by) is among them, and a    *)
(* request that fails inside Microsoft's OAuth and Xbox steps is not.      *)
(***************************************************************************)
AskErrors(kind)    == {"fatal"} \cup IF kind = "telegram" THEN {"network"} ELSE {}
AnswerErrors(kind) == {"fatal", "network"}
RefreshErrors(kind) == IF kind = "microsoft" THEN {"fatal"} ELSE {}
UserInfoErrors     == {"fatal", "network"}

\* authenticate: the user is shown where to log in ...
Asked(flow) == {To(flow, "Waiting")}
\* ... and does.
Answered(kind, flow) == {ToUserInfo(flow, LogIn(kind, n)) : n \in Name}

\* refresh: Microsoft may or may not issue a new refresh token.
Refreshed(kind, flow) ==
    LET owner == flow.held.refresh
        again == To(flow, "Auth")
    IN  IF owner = NoToken \/ kind # "microsoft" THEN {again}
        ELSE {ToUserInfo(again, [access |-> owner, refresh |-> r]) : r \in {owner, NoToken}}

\* A bug: the tokens the user is looked up with are not kept.
LookedUpOnly(flow) ==
    LET round == [flow EXCEPT !.round = @ + 1]
    IN  {[round EXCEPT !.pc = "Success", !.user = flow.next.access],
         [round EXCEPT !.pc = "Refresh"]}

\* get_user_info: the user, or a client error that asks for a refresh.
LookedUp(flow) ==
    LET held == [flow EXCEPT !.held = flow.next, !.round = @ + 1]
    IN  {[held EXCEPT !.pc = "Success", !.user = flow.next.access],
         [held EXCEPT !.pc = "Refresh"]}

\* Success: the tokens held, and the user they were looked up for.
Account(flow) == [user |-> flow.user, access |-> flow.held.access, refresh |-> flow.held.refresh]
=============================================================================
