---------------------------- MODULE MCSchemaAdmin ----------------------------
EXTENDS SchemaAdmin

CONSTANTS a1, a2, sysdb, db, sysco, co

MCClients == {a1, a2}
\* Every call on the user database and collection, and the deletes of the
\* system ones.
MCRequests ==
    {[op |-> o, db |-> db, coll |-> co] : o \in {"create_db", "delete_db", "create_coll", "delete_coll"}}
    \cup {[op |-> "delete_db", db |-> sysdb, coll |-> co],
          [op |-> "delete_coll", db |-> sysdb, coll |-> sysco]}

=============================================================================
