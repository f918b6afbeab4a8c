CONSTANTS
  w1 = w1  w2 = w2  pdf1 = pdf1  pdf2 = pdf2  docx1 = docx1
  Absent = Absent  Torn = Torn  None = None
  Workers = {w1, w2}
  Fields = {"step", "job"}
  Values = {1, 2}
  Keys = {"cv_file", "extra_doc_0"}
  Docs = {pdf1, pdf2, docx1}
  Ext <- SuffixOf
  MaxCalls = 3
  MaxCrashes = 1
SPECIFICATION Spec
INVARIANTS
  RecordedIsStored
  TornIsBeingWritten
PROPERTIES
  ImplementsPromise
SYMMETRY WorkerSymmetry
CHECK_DEADLOCK FALSE
