---------------------------- MODULE MCHttpGateway ----------------------------
EXTENDS HttpGateway

Shape(route, bearer, key, echo) ==
  [route |-> route, bearer |-> bearer, key |-> key, echo |-> echo]

\* Slot s1 sees every kind of credentials on the routes that tell them apart;
\* s2 stands for the other traffic.
MCShapes ==
  [s1 |-> {Shape(r, b, k, "none") : r \in {"detail", "deactivate"},
                                    b \in {"bad", "roleless", "admin"},
                                    k \in {"none", "k1"}}
          \union {Shape("detail", "none", k, "none") : k \in {"wrong", "k1"}}
          \union {Shape("offer", "none", "none", e) : e \in {"none", "cookie", "other"}}
          \union {Shape("offer", "agent", "none", "none"),
                  Shape("register", "operator", "none", "none")},
   s2 |-> {Shape("health", "none", "none", "none"), Shape("metrics", "none", "none", "none"),
           Shape("ready", "none", "none", "none"), Shape("nowhere", "none", "none", "cookie")}]
=============================================================================
