------------------------------- MODULE AppRefs -------------------------------
(***************************************************************************)
(* Which App a Token or ClusterToken refers to, and which of them an event *)
(* of an App is for.  The first is computed when a Token is reconciled,    *)
(* from its spec; the second when an App changes, from the field indexes   *)
(* of the cache.  Each has its own code for the namespace that a reference *)
(* leaves out.                                                             *)
(***************************************************************************)
CONSTANTS
    Tokens,             \* Tokens and ClusterTokens
    Namespaces, Names,  \* of Apps
    NamespaceOf,        \* the namespace of a Token, Nil for a ClusterToken
    OperatorNamespace,
    Unset,              \* a namespace left out
    Nil

ASSUME NamespacesAssumption ==
    /\ Unset \notin Namespaces /\ Nil \notin Namespaces
    /\ OperatorNamespace \in Namespaces
    /\ NamespaceOf \in [Tokens -> Namespaces \cup {Nil}]

AppKey == [namespace : Namespaces, name : Names]

(* spec.appRef; that of a Token (LocalAppReference) has no namespace.      *)
AppReference == [namespace : Namespaces \cup {Unset}, name : Names]

ASSUME NilReference == Nil \notin AppReference

IsClusterToken(t) == NamespaceOf[t] = Nil

GetAppRef(t, ref) ==
    IF ref = Nil \/ IsClusterToken(t) THEN ref
    ELSE [namespace |-> NamespaceOf[t], name |-> ref.name]

Defaulted(namespace) == IF namespace = Unset THEN OperatorNamespace ELSE namespace

(* resolveApp: the key of the App, Nil for the startup configuration.      *)
AppKeyOf(t, ref) ==
    LET r == GetAppRef(t, ref)
    IN  IF r = Nil THEN Nil ELSE [namespace |-> Defaulted(r.namespace), name |-> r.name]

(* The index functions.  Names and namespaces of objects have no slash, so *)
(* that "namespace/name" stands for the pair.                              *)
TokenAppRefIndex(ref) == IF ref = Nil THEN {} ELSE {ref.name}

\* Mutant: the index leaves the namespace as it was written.
IndexAsWritten(ref) == IF ref = Nil THEN {} ELSE {<<ref.namespace, ref.name>>}

ClusterTokenAppRefIndex(ref) ==
    IF ref = Nil THEN {} ELSE {<<Defaulted(ref.namespace), ref.name>>}

(* The map functions of the two watches, refs being the references cached. *)
mapAppToTokens(app, refs) ==
    {t \in Tokens : NamespaceOf[t] = app.namespace /\ app.name \in TokenAppRefIndex(refs[t])}

mapAppToClusterTokens(app, refs) ==
    {t \in Tokens : /\ IsClusterToken(t)
                    /\ <<app.namespace, app.name>> \in ClusterTokenAppRefIndex(refs[t])}
=============================================================================
