SPECIFICATION Spec
CONSTANTS
    Agents = {a1, a2}
    Numbers = {n1, n2}
    Requests = {r1, r2}
    Bookings = {b1}
    NoAgent = NoAgent
    NoNumber = NoNumber
    NotRead = NotRead
SYMMETRY Symmetry
VIEW WhatMatters
INVARIANTS AssignedIsRouted RoutesAgree RoutesAreDurable BookingsKept
