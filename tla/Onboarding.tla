----------------------------- MODULE Onboarding ------------------------------
(***************************************************************************)
(* What setting up a repository promises: a run makes one app and one      *)
(* webhook, or more only when it has been led astray, for which there must *)
(* have been two of a kind to choose from; the secret of a webhook is      *)
(* stored once and before another webhook is made; and the repository is   *)
(* bound once, as a whole, to the project, to the webhook of the run that  *)
(* binds, whose secret has been stored, and to an app of that run or else  *)
(* to the first of all.  With that it is over: nothing more is made,       *)
(* stored or bound.                                                        *)
(*                                                                         *)
(* Nothing here speaks of calls, logs, steps, searches or faults.          *)
(***************************************************************************)
EXTENDS Integers, Sequences

CONSTANT Runs

VARIABLES
    apps, hooks,    \* the run that made each app, each webhook
    project,        \* 1 if there is a project
    kept,           \* the webhooks whose secret has been stored
    keychain,       \* the one whose secret is there, 0 if none
    bound,          \* what the repository is bound to
    astray          \* runs that had to choose between two of a kind

vars == <<apps, hooks, project, kept, keychain, bound, astray>>

Nothing == [app |-> 0, project |-> 0, hook |-> 0]
Open == bound = Nothing

Init ==
    /\ apps = <<>> /\ hooks = <<>> /\ project \in 0..1
    /\ kept = {} /\ keychain = 0 /\ Open /\ astray = {}

\* A run may make one, and none if it has made one before.
May(r, made) == r \in astray \/ \A i \in DOMAIN made : made[i] # r

MakeApp(r) ==
    /\ Open
    /\ May(r, apps) /\ apps' = Append(apps, r)
    /\ UNCHANGED <<hooks, project, kept, keychain, bound, astray>>

MakeHook(r) ==
    /\ Open
    /\ May(r, hooks) /\ hooks' = Append(hooks, r)
    /\ UNCHANGED <<apps, project, kept, keychain, bound, astray>>

MakeProject ==
    /\ Open
    /\ project' = 1
    /\ UNCHANGED <<apps, hooks, kept, keychain, bound, astray>>

\* The secret of the newest webhook.
StoreSecret ==
    /\ Open
    /\ hooks # <<>> /\ Len(hooks) \notin kept
    /\ kept' = kept \cup {Len(hooks)} /\ keychain' = Len(hooks)
    /\ UNCHANGED <<apps, hooks, project, bound, astray>>

GoAstray(r) ==
    /\ Open
    /\ Len(apps) > 1 \/ Len(hooks) > 1
    /\ astray' = astray \cup {r}
    /\ UNCHANGED <<apps, hooks, project, kept, keychain, bound>>

Bind(r, a, h) ==
    /\ Open
    /\ a = 1 \/ apps[a] = r
    /\ project = 1
    /\ hooks[h] = r
    /\ bound' = [app |-> a, project |-> 1, hook |-> h]
    /\ UNCHANGED <<apps, hooks, project, kept, keychain, astray>>

Next ==
    \/ MakeProject \/ StoreSecret
    \/ \E r \in Runs :
          \/ MakeApp(r) \/ MakeHook(r) \/ GoAstray(r)
          \/ \E a \in DOMAIN apps, h \in kept : Bind(r, a, h)

Spec == Init /\ [][Next]_vars
=============================================================================
