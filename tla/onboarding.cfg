SPECIFICATION OBSpec
CONSTANTS
    Items = {"business_name", "services"}
    Turns = {t1, t2}
    Sessions = {s1, s2, s3}
    NoSession = NoSession
SYMMETRY Symmetry
VIEW WhatMatters
INVARIANTS NoBleed KeptAsTold ConfigIsOwn
