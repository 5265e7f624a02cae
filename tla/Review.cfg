SPECIFICATION Spec
CONSTANTS
    own = own
    confirmed = confirmed
    note = note
    t1 = t1
    t2 = t2
    Entry = {own, confirmed, note}
    InNotes = {note}
    Confirms = {confirmed}
    Older = {own, confirmed, note}
    Text = {t1, t2}
    NoSeal = NoSeal
    MaxEdits = 2
SYMMETRY Symmetry
INVARIANTS AgreedUnlessReread RecordedStays
CHECK_DEADLOCK FALSE
