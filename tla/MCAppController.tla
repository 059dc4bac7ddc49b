-------------------------- MODULE MCAppController --------------------------
(* Small instances of AppController for TLC.                               *)
EXTENDS AppController

CONSTANTS s1, t1, i1, i2, ops

Kms(id) == [id |-> id, keyRef |-> Nil, validateKey |-> FALSE]
Pem(id, s) == [id |-> id, keyRef |-> s, validateKey |-> FALSE]
Checked(spec) == [spec EXCEPT !.validateKey = TRUE]

(* One App, in the namespace of the operator.  A Token there refers to it  *)
(* by name; so does a ClusterToken, which may refer to none instead.       *)
NamespaceChoices == {ops}
a1 == [namespace |-> ops, name |-> "app"]
OneApp == {a1}
Local == [namespace |-> Unset, name |-> "app"]
Fixed == {Local}
Switching == {Local, Nil}
Cluster == [t \in Tokens |-> Nil]
Namespaced == [t \in Tokens |-> ops]

(* Two identities behind a KMS; a KMS and a Secret; one Secret.            *)
KmsOnly == {Kms(i1), Kms(i2)}
KmsAndSecret == {Kms(i1), Checked(Pem(i2, s1))}
SecretOnly == {Pem(i1, s1)}

(* The operator starts where an App and its key exist already.             *)
PopulatedInit ==
    /\ apps = [a \in Apps |->
         [uid |-> 1, generation |-> 1, spec |-> Pem(i1, s1),
          ready |-> "None", keyValid |-> "None", observed |-> 0]]
    /\ keySecrets = [s \in KeySecrets |-> [rv |-> 2, pem |-> 1]]
    /\ appCache = [a \in Apps |-> Nil] /\ keyCache = [s \in KeySecrets |-> Nil]
    /\ queue = {} /\ timers = {}
    /\ worker = [a \in Apps |-> IdleWorker]
    /\ registry = [a \in Apps |-> Nil]
    /\ refs = [t \in Tokens |-> Nil] /\ refCache = refs
    /\ tokens = [t \in Tokens |-> NewToken]
    /\ tokenQueue = Tokens /\ tokenTimers = {}
    /\ revision = 2 /\ refEdits = 0 /\ faults = 0

PopulatedLive == PopulatedInit /\ [][Next]_vars /\ Fairness
=============================================================================
