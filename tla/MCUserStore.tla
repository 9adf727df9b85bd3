------------------------------- MODULE MCUserStore ------------------------------
EXTENDS UserStore

Rows2 == {"whole", "cut"}
Cut == [r \in Rows2 |-> "cut"]

\* AuthDevice and DeleteAuthedDevice.
Auth == [x \in {<<"certified", 1>>, <<"tickets", 1>>} |-> "whole"]
Delete == [x \in {<<"certified", 1>>} |-> NoRow]
Ops == {Auth, Delete}

\* A seed with a user that has no policy.
SeedFile ==
    [rows |-> [Empty EXCEPT !["users"][2] = "whole", !["devices"][1] = "whole",
                            !["enrollments"][1] = "whole"],
     seq |-> 2]
SeedFiles == {SeedFile, EmptySnapshot}

\* Binary 1 carries one control migration; binary 2 adds one for the web portal
\* and one of its own; binary 3 edits a file that binary 2 may have applied.
Plain == [v \in 1..3 |-> "s"]
Binaries == {[known |-> 1, sum |-> Plain],
             [known |-> 3, sum |-> Plain],
             [known |-> 3, sum |-> [Plain EXCEPT ![2] = "edited"]]}

================================================================================
