---------------------------- MODULE MCEventRuns ----------------------------
(* Small instances of EventRuns for TLC. *)
EXTENDS EventRuns, TLC

CONSTANTS s1, s2, b1, b2, q1, q2, t1, t2, u1, u2, k1, k2

Owner == [tenant |-> t1, user |-> u1]

Hook(header, body, tenant, user, addressed, claimed, bound) ==
  [header |-> header, body |-> body, tenant |-> tenant, user |-> user,
   addressed |-> addressed, claimed |-> claimed, bound |-> bound]

\* One Idempotency-Key with two bodies; a claim that names the signal's user, one that
\* names its own, and service accounts with and without a user, the latter of the
\* other tenant but bound to the chat.
SampleWebhooks ==
  { Hook(k1,   None, t1, u1,   TRUE,  None, TRUE),
    Hook(k1,   k2,   t1, u2,   FALSE, u1,   TRUE),
    Hook(None, None, t1, None, TRUE,  u2,   FALSE),
    Hook(None, k1,   t2, None, FALSE, None, TRUE) }

\* The owner of the chat, another user and an admin of the tenant, and an admin of the
\* other tenant who has the owner's user id.
SampleCallers ==
  { [tenant |-> t1, user |-> u1, admin |-> FALSE], [tenant |-> t1, user |-> u2, admin |-> FALSE],
    [tenant |-> t1, user |-> u2, admin |-> TRUE],  [tenant |-> t2, user |-> u1, admin |-> TRUE] }

IdSymmetry == Permutations({s1, s2}) \cup Permutations({b1, b2})
              \cup Permutations({q1, q2})

=============================================================================
