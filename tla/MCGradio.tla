------------------------------- MODULE MCGradio -------------------------------
EXTENDS Gradio

CONSTANTS w1, w2, r1, s1, s2

Entry(id, distance, trait) == [id |-> id, distance |-> distance, trait |-> trait]

Pool == [i \in 1..9 |-> Entry(i, IF i = 9 THEN 20 ELSE i, IF i = 9 THEN 90 ELSE (i * 5) % 7)]
Indexes == {<<>>, Pool}

Scene(buttons, n) == [buttons |-> buttons, mishaps |-> n]

Scenarios == {
    Scene({}, 0),
    Scene({"TinyTroupe", "load", "start"}, 0),
    Scene({"TinyTroupe", "load", "save"}, 1),
    Scene({"TinyTroupe", "PersonaPool", "start"}, 0),
    Scene({"TinyTroupe", "api"}, 0),
    Scene({"TinyTroupe"}, 1),
    Scene({"PersonaPool"}, 1),
    Scene({"Example Persona"}, 1),
    Scene({"PersonaPool", "choose", "tweak", "save"}, 1),
    Scene({"load", "tweak", "save", "workspace"}, 1),
    Scene({"load", "tasks", "tweak", "save", "start"}, 0),
    Scene({"load", "tasks", "start"}, 1),
    Scene({"load", "Example Persona", "save"}, 0),
    Scene({"api"}, 1)}

Viewing(buttons, n) == [buttons |-> buttons, troubles |-> n]

Personas == [s \in {s1, s2} |-> IF s = s1 THEN 2 ELSE 1]

\* Without a control to use nothing happens.
Controls == {
    Viewing({}, 0),
    Viewing({"go", "session", "mode"}, 0),
    Viewing({"go", "session"}, 1),
    Viewing({"go", "find", "session"}, 0),
    Viewing({"find", "mode", "follow"}, 0),
    Viewing({"session", "slide", "compare"}, 1)}

NoScene == {Scene({}, 0)}
=============================================================================
