CONSTANTS
  form1 = form1
  form2 = form2
  nav1 = nav1
  fetch1 = fetch1
  fetch2 = fetch2
  fetch3 = fetch3
  tab1 = tab1
  tab2 = tab2
  Form = {form1, form2}
  Nav = {nav1}
  Fetch = {fetch1, fetch2, fetch3}
  Tab = {tab1, tab2}
  TabOf <- MCTabOf
  MaxInFlight = 2
  MaxTokens = 3
  MaxLapses = 1
  MaxChanges = 1
  owner = owner
  guest = guest
  invitation1 = invitation1
  invitation2 = invitation2
  doc1 = doc1
  doc2 = doc2
  request1 = request1
  request2 = request2
  User = {owner, guest}
  Owner = owner
  Invitation = {invitation1, invitation2}
  Document = {doc1, doc2}
  Req = {request1, request2}
SYMMETRY Symmetric
SPECIFICATION Spec
CHECK_DEADLOCK FALSE
INVARIANTS EndedStayEnded NoFalseTheft JarIsCurrent MailedSpentOnce StoredAsRecorded
