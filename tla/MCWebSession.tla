---------------------------- MODULE MCWebSession ----------------------------
(* Small instances of WebSession: two members with a session each.         *)
EXTENDS WebSession, TLC

CONSTANTS s1, s2, m1, m2

MCOwner == (s1 :> m1) @@ (s2 :> m2)

\* The two members, each with its session, are interchangeable.
MCSymmetry == {(s1 :> s2) @@ (s2 :> s1) @@ (m1 :> m2) @@ (m2 :> m1)}

\* What the sockets are decides about nothing but the sockets, and no property looks at
\* those of an app that is not disciplined: states of one that differ only there are one.
MCView == <<token, member, key, view, stores, host, flow, req, disciplined,
            IF disciplined THEN sockets ELSE <<>> >>
=============================================================================
